---------------------------- MODULE Spec2Model ----------------------------
(***************************************************************************)
(* The streaming feed client of the TraderMade Go SDK (package             *)
(* tradermadews): Connect, Disconnect, the receive loop wsReadPump and     *)
(* the reconnection loop reconnect, as a state machine over the client's   *)
(* fields, the transports it has opened and the goroutines it has started. *)
(*                                                                         *)
(* A step is one visible effect of one goroutine.  Statements executed     *)
(* under ConnMutex with no effect another goroutine can see in between are *)
(* one step.  An unrecovered Go panic ends the process: it is recorded in  *)
(* `panic` and no step follows it.                                         *)
(***************************************************************************)
EXTENDS Integers, Sequences, FiniteSets, TLC

(* ------------------------------ bounds -------------------------------- *)
\* transports the environment lets the client open successfully
MaxConns == 2
\* the caller configures MaxRetries in 0..RetryBound
RetryBound == 2

(* ------------------------- program constants -------------------------- *)
NULL == 0
ConnIds == 1..MaxConns
\* one receive loop is started per opened transport: pump p is the
\* goroutine started by the Connect that opened transport p
Pumps == ConnIds
\* foreground goroutines calling the public API
Callers == {-1}
Threads == Callers \cup Pumps

Keys == {"k1", "k2"}
Symbols == {"EURUSD", "EURUSD,GBPUSD"}
\* the (apiKey, symbol) pairs clients are constructed with
NewArgs == {<<"k1", "EURUSD,GBPUSD">>, <<"k2", "EURUSD">>}
\* what a read of client.Symbol racing with SetSymbol may yield besides the
\* old and the new value: a string header mixing the two
TornSymbol == "<torn>"
\* symWrite when no SetSymbol is storing
NoWrite == ""
\* frame[p] when pump p has no frame
NoFrame == [id |-> 0, conn |-> 0, seq |-> 0]
\* call[p] when pump p is not in a handler
NoCall == [cb |-> "none"]

VARIABLES
    APIKey,              \* client.APIKey
    Symbol,              \* client.Symbol
    Conn,                \* client.Conn: NULL or the installed transport
    ConnMutex,           \* client.ConnMutex: NULL or the goroutine holding it
    ReconnectionHandler, \* client.ReconnectionHandler # nil
    MaxRetries,          \* client.MaxRetries
    AutoReconnect,       \* client.AutoReconnect
    StopReconnect,       \* client.StopReconnect: "open" or "closed"
    conns,               \* transport -> "none" | "open" | "broken" | "closed"
    pc,                  \* goroutine -> position in its code
    ret,                 \* goroutine -> value its Connect call returned
    retries,             \* pump -> local `retries` of reconnect()
    rd,                  \* pump -> transport its ReadMessage blocks on or
                         \* has failed on, NULL outside a read
    symWrite,            \* value an unfinished SetSymbol is storing, or NoWrite
    panic,               \* "none" or the runtime error that ended the process
    phase,               \* how far the caller's set-up has come
    newArgs,             \* the arguments NewWebSocketClient was given
    authCount,           \* transport -> auth frames handed to WriteMessage
    cred,                \* goroutine -> local `cred` of its Connect call: the
                         \* auth frame it handed to WriteMessage, "" before
    reconnLog,           \* pump -> attempt numbers passed to the handler
    waitCancelled,       \* pumps that were in the retry wait when
                         \* StopReconnect was closed
    MessageHandler,      \* client.MessageHandler # nil
    ConnectedHandler,    \* client.ConnectedHandler # nil
    frame,               \* pump -> the frame of this iteration of its loop
                         \* (local `message`), NoFrame while it reads
    call,                \* pump -> the handler call it is in, or NoCall
    arrived,             \* transport -> frames its ReadMessage has returned
    restPc,              \* REST caller: "idle", "sent" or "returned"
    restRequest,         \* the operation called and its arguments
    restURL,             \* the URL of the request sent
    restResponse,        \* the response received: status and body
    restResult           \* what the operation returned: data and error

\* the receive loop's frame handling
frameVars == <<MessageHandler, ConnectedHandler, frame, call, arrived>>

\* the REST client
restVars == <<restPc, restRequest, restURL, restResponse, restResult>>

\* the feed client
feedVars == <<APIKey, Symbol, Conn, ConnMutex, ReconnectionHandler, MaxRetries,
              AutoReconnect, StopReconnect, conns, pc, ret, retries, rd,
              symWrite, panic, phase, newArgs, authCount,
              cred, reconnLog, waitCancelled, frameVars>>

vars == <<feedVars, restVars>>

DefaultMaxRetries == 5

(* --------------------------- construction ----------------------------- *)
\* NewWebSocketClient(apiKey, symbol)
NewWebSocketClient(apiKey, symbol) ==
    /\ APIKey = apiKey
    /\ Symbol = symbol
    /\ Conn = NULL
    /\ ConnMutex = NULL
    /\ ReconnectionHandler = FALSE
    /\ MaxRetries = DefaultMaxRetries
    /\ AutoReconnect = TRUE
    /\ StopReconnect = "open"
    /\ MessageHandler = FALSE
    /\ ConnectedHandler = FALSE
    /\ newArgs = [apiKey |-> apiKey, symbol |-> symbol]

Init ==
    /\ \E a \in NewArgs : NewWebSocketClient(a[1], a[2])
    /\ conns = [h \in ConnIds |-> "none"]
    /\ pc = [t \in Threads |-> IF t \in Callers THEN "idle" ELSE "unborn"]
    /\ ret = [t \in Threads |-> "none"]
    /\ retries = [p \in Pumps |-> 0]
    /\ rd = [p \in Pumps |-> NULL]
    /\ symWrite = NoWrite
    /\ panic = "none"
    /\ phase = "new"
    /\ authCount = [h \in ConnIds |-> 0]
    /\ cred = [t \in Threads |-> ""]
    /\ reconnLog = [p \in Pumps |-> <<>>]
    /\ waitCancelled = {}
    /\ frame = [p \in Pumps |-> NoFrame]
    /\ call = [p \in Pumps |-> NoCall]
    /\ arrived = [h \in ConnIds |-> 0]
    /\ restPc = "idle"
    /\ restRequest = [op |-> "none", interval |-> "", period |-> <<>>]
    /\ restURL = [path |-> "", interval |-> "", period |-> 0]
    /\ restResponse = [status |-> 0, body |-> 0]
    /\ restResult = [data |-> <<>>, err |-> "none"]

(* --------------------------- configuration ---------------------------- *)
\* The caller sets the client up before its first call of Connect, in the
\* order of the example program: reconnection handler, MaxRetries,
\* EnableAutoReconnect.

\* SetReconnectionHandler(handler)
SetReconnectionHandler ==
    /\ panic = "none"
    /\ phase = "new"
    /\ ReconnectionHandler' = TRUE
    /\ phase' = "handler"
    /\ UNCHANGED <<restVars, frameVars, APIKey, Symbol, Conn, ConnMutex, MaxRetries,
                   AutoReconnect, StopReconnect, conns, pc, ret, retries, rd,
                   symWrite, panic, newArgs, authCount,
                   cred, reconnLog, waitCancelled>>

\* client.MaxRetries = n
SetMaxRetries(n) ==
    /\ panic = "none"
    /\ phase = "handler"
    /\ MaxRetries' = n
    /\ phase' = "retries"
    /\ UNCHANGED <<restVars, frameVars, APIKey, Symbol, Conn, ConnMutex, ReconnectionHandler,
                   AutoReconnect, StopReconnect, conns, pc, ret, retries, rd,
                   symWrite, panic, newArgs, authCount,
                   cred, reconnLog, waitCancelled>>

\* EnableAutoReconnect(enable)
EnableAutoReconnect(enable) ==
    /\ panic = "none"
    /\ phase = "retries"
    /\ AutoReconnect' = enable
    /\ phase' = "ready"
    /\ UNCHANGED <<restVars, frameVars, APIKey, Symbol, Conn, ConnMutex, ReconnectionHandler,
                   MaxRetries, StopReconnect, conns, pc, ret, retries, rd,
                   symWrite, panic, newArgs, authCount,
                   cred, reconnLog, waitCancelled>>

(* ------------------------------ Connect ------------------------------- *)
\* mutant: the check for an installed transport is missing
AlreadyConnectedNever == FALSE

\* `if client.Conn != nil`
AlreadyConnected == Conn # NULL

\* the transport websocket.DefaultDialer.Dial returns when it succeeds
FreshConn == CHOOSE h \in ConnIds : conns[h] = "none" /\ \A g \in ConnIds : conns[g] = "none" => h <= g

\* mutant: Connect uses the symbol list given at construction
SymbolReadConstructed == {newArgs.symbol}

\* what a read of client.Symbol yields: the field, or, while a SetSymbol
\* on another goroutine is storing (a data race on a two-word string),
\* the old value, the new one or a mix of the two
SymbolRead == IF symWrite = NoWrite THEN {Symbol} ELSE {Symbol, symWrite, TornSymbol}

\* mutant: the format has no space after the comma
AuthFrameCompact(apiKey, symbol) ==
    "{\"userKey\":\"" \o apiKey \o "\",\"symbol\":\"" \o symbol \o "\"}"

\* fmt.Sprintf(`{"userKey":"%s", "symbol":"%s"}`, apiKey, symbol)
AuthFrame(apiKey, symbol) ==
    "{\"userKey\":\"" \o apiKey \o "\", \"symbol\":\"" \o symbol \o "\"}"

\* a foreground goroutine calls client.Connect()
CallConnect(t) ==
    /\ panic = "none"
    /\ t \in Callers /\ pc[t] = "idle" /\ phase = "ready"
    /\ pc' = [pc EXCEPT ![t] = "c_lock"]
    /\ UNCHANGED <<restVars, frameVars, APIKey, Symbol, Conn, ConnMutex, ReconnectionHandler,
                   MaxRetries, AutoReconnect, StopReconnect, conns, ret,
                   retries, rd, symWrite, panic, phase, newArgs,
                   authCount, cred, reconnLog, waitCancelled>>

\* Connect: Lock; Conn != nil; return nil (deferred Unlock)
ConnectNoop(t) ==
    /\ panic = "none"
    /\ pc[t] = "c_lock" /\ ConnMutex = NULL
    /\ AlreadyConnected
    /\ ret' = [ret EXCEPT ![t] = "nil"]
    /\ pc' = [pc EXCEPT ![t] = "c_ret"]
    /\ UNCHANGED <<restVars, frameVars, APIKey, Symbol, Conn, ConnMutex, ReconnectionHandler,
                   MaxRetries, AutoReconnect, StopReconnect, conns, retries,
                   rd, symWrite, panic, phase, newArgs,
                   authCount, cred, reconnLog, waitCancelled>>

\* mutant: Connect refuses to dial once StopReconnect is closed
ConnectDialOkUnlessStopped(t) ==
    /\ panic = "none"
    /\ pc[t] = "c_lock" /\ ConnMutex = NULL
    /\ ~AlreadyConnected
    /\ \E h \in ConnIds : conns[h] = "none"
    /\ IF StopReconnect = "closed"
       THEN /\ ret' = [ret EXCEPT ![t] = "client stopped"]
            /\ pc' = [pc EXCEPT ![t] = "c_ret"]
            /\ UNCHANGED <<conns, Conn, ConnMutex>>
       ELSE /\ conns' = [conns EXCEPT ![FreshConn] = "open"]
            /\ Conn' = FreshConn
            /\ ConnMutex' = t
            /\ pc' = [pc EXCEPT ![t] = "c_go"]
            /\ UNCHANGED ret
    /\ UNCHANGED <<restVars, frameVars, APIKey, Symbol, ReconnectionHandler, MaxRetries,
                   AutoReconnect, StopReconnect, retries, rd,
                   symWrite, panic, phase, newArgs, authCount,
                   cred, reconnLog, waitCancelled>>

\* Connect: Lock; Conn == nil; client.Conn, _, err = Dial(wsURL, nil)
\* succeeds: the new transport is installed and the mutex stays held
ConnectDialOk(t) ==
    /\ panic = "none"
    /\ pc[t] = "c_lock" /\ ConnMutex = NULL
    /\ ~AlreadyConnected
    /\ \E h \in ConnIds : conns[h] = "none"
    /\ conns' = [conns EXCEPT ![FreshConn] = "open"]
    /\ Conn' = FreshConn
    /\ ConnMutex' = t
    /\ pc' = [pc EXCEPT ![t] = "c_go"]
    /\ UNCHANGED <<restVars, frameVars, APIKey, Symbol, ReconnectionHandler, MaxRetries,
                   AutoReconnect, StopReconnect, ret, retries, rd,
                   symWrite, panic, phase, newArgs, authCount,
                   cred, reconnLog, waitCancelled>>

\* mutant: the receive loop is started before Dial's error is checked
ConnectDialFailStartsPump(t) ==
    /\ panic = "none"
    /\ pc[t] = "c_lock" /\ ConnMutex = NULL
    /\ ~AlreadyConnected
    /\ \E h \in ConnIds : conns[h] = "none"
    /\ Conn' = NULL
    /\ ret' = [ret EXCEPT ![t] = "dial error"]
    /\ pc' = [pc EXCEPT ![t] = "c_ret", ![FreshConn] = "read"]
    /\ UNCHANGED <<restVars, frameVars, APIKey, Symbol, ConnMutex, ReconnectionHandler,
                   MaxRetries, AutoReconnect, StopReconnect, conns, retries,
                   rd, symWrite, panic, phase, newArgs,
                   authCount, cred, reconnLog, waitCancelled>>

\* Connect: Lock; Conn == nil; Dial fails: Conn is assigned the nil
\* connection Dial returns with its error; return err (deferred Unlock)
ConnectDialFail(t) ==
    /\ panic = "none"
    /\ pc[t] = "c_lock" /\ ConnMutex = NULL
    /\ ~AlreadyConnected
    /\ Conn' = NULL
    /\ ret' = [ret EXCEPT ![t] = "dial error"]
    /\ pc' = [pc EXCEPT ![t] = "c_ret"]
    /\ UNCHANGED <<restVars, frameVars, APIKey, Symbol, ConnMutex, ReconnectionHandler,
                   MaxRetries, AutoReconnect, StopReconnect, conns, retries,
                   rd, symWrite, panic, phase, newArgs,
                   authCount, cred, reconnLog, waitCancelled>>

\* Connect: go client.wsReadPump()
ConnectGo(t) ==
    /\ panic = "none"
    /\ pc[t] = "c_go"
    /\ pc' = [pc EXCEPT ![t] = "c_auth", ![Conn] = "read"]
    /\ UNCHANGED <<restVars, frameVars, APIKey, Symbol, Conn, ConnMutex, ReconnectionHandler,
                   MaxRetries, AutoReconnect, StopReconnect, conns, ret,
                   retries, rd, symWrite, panic, phase,
                   newArgs, authCount, cred, reconnLog, waitCancelled>>

\* mutant: a failed write closes and clears the transport
ConnectAuthClosesOnFailure(t) ==
    /\ panic = "none"
    /\ pc[t] = "c_auth"
    /\ \E s \in SymbolRead : cred' = [cred EXCEPT ![t] = AuthFrame(APIKey, s)]
    /\ authCount' = [authCount EXCEPT ![Conn] = @ + 1]
    /\ \E ok \in BOOLEAN :
          /\ ret' = [ret EXCEPT ![t] = IF ok THEN "nil" ELSE "send error"]
          /\ IF ok
             THEN UNCHANGED <<Conn, conns>>
             ELSE /\ conns' = [conns EXCEPT ![Conn] = "closed"]
                  /\ Conn' = NULL
    /\ ConnMutex' = NULL
    /\ pc' = [pc EXCEPT ![t] = "c_ret"]
    /\ UNCHANGED <<restVars, frameVars, APIKey, Symbol, ReconnectionHandler, MaxRetries,
                   AutoReconnect, StopReconnect, retries, rd,
                   symWrite, panic, phase, newArgs, reconnLog,
                   waitCancelled>>

\* Connect: cred := Sprintf(...); err = Conn.WriteMessage(cred); return
\* (deferred Unlock).  The write succeeds or fails as the network decides.
ConnectAuth(t) ==
    /\ panic = "none"
    /\ pc[t] = "c_auth"
    /\ \E s \in SymbolRead : cred' = [cred EXCEPT ![t] = AuthFrame(APIKey, s)]
    /\ authCount' = [authCount EXCEPT ![Conn] = @ + 1]
    /\ \E ok \in BOOLEAN :
          ret' = [ret EXCEPT ![t] = IF ok THEN "nil" ELSE "send error"]
    /\ ConnMutex' = NULL
    /\ pc' = [pc EXCEPT ![t] = "c_ret"]
    /\ UNCHANGED <<restVars, frameVars, APIKey, Symbol, Conn, ReconnectionHandler, MaxRetries,
                   AutoReconnect, StopReconnect, conns, retries, rd,
                   symWrite, panic, phase, newArgs, reconnLog,
                   waitCancelled>>

\* the foreground caller receives Connect's result
ConnectReturn(t) ==
    /\ panic = "none"
    /\ t \in Callers /\ pc[t] = "c_ret"
    /\ pc' = [pc EXCEPT ![t] = "idle"]
    /\ ret' = [ret EXCEPT ![t] = "none"]
    /\ cred' = [cred EXCEPT ![t] = ""]
    /\ UNCHANGED <<restVars, frameVars, APIKey, Symbol, Conn, ConnMutex, ReconnectionHandler,
                   MaxRetries, AutoReconnect, StopReconnect, conns, retries,
                   rd, symWrite, panic, phase, newArgs,
                   authCount, reconnLog, waitCancelled>>

(* ----------------------------- Disconnect ----------------------------- *)
\* mutant: closing StopReconnect a second time does nothing
DisconnectCloseIdempotent(t) ==
    /\ panic = "none"
    /\ t \in Callers /\ pc[t] = "idle" /\ phase = "ready"
    /\ StopReconnect' = "closed"
    /\ waitCancelled' = IF StopReconnect = "closed" THEN waitCancelled
                        ELSE {p \in Pumps : pc[p] = "rc_wait"}
    /\ pc' = [pc EXCEPT ![t] = "d_lock"]
    /\ UNCHANGED <<restVars, frameVars, APIKey, Symbol, Conn, ConnMutex, ReconnectionHandler,
                   MaxRetries, AutoReconnect, conns, ret, retries, rd,
                   symWrite, panic, phase, newArgs, authCount,
                   cred, reconnLog>>

\* Disconnect: close(client.StopReconnect); closing a closed channel is a
\* run-time panic
DisconnectClose(t) ==
    /\ panic = "none"
    /\ t \in Callers /\ pc[t] = "idle" /\ phase = "ready"
    /\ IF StopReconnect = "closed"
       THEN /\ panic' = "close of closed channel"
            /\ UNCHANGED <<StopReconnect, pc, waitCancelled>>
       ELSE /\ StopReconnect' = "closed"
            /\ waitCancelled' = {p \in Pumps : pc[p] = "rc_wait"}
            /\ pc' = [pc EXCEPT ![t] = "d_lock"]
            /\ UNCHANGED panic
    /\ UNCHANGED <<restVars, frameVars, APIKey, Symbol, Conn, ConnMutex, ReconnectionHandler,
                   MaxRetries, AutoReconnect, conns, ret, retries, rd,
                   symWrite, phase, newArgs, authCount,
                   cred, reconnLog>>

\* mutant: Disconnect forgets the transport without closing it
DisconnectConnNoClose(t) ==
    /\ panic = "none"
    /\ pc[t] = "d_lock" /\ ConnMutex = NULL
    /\ Conn' = NULL
    /\ pc' = [pc EXCEPT ![t] = "idle"]
    /\ UNCHANGED <<restVars, frameVars, APIKey, Symbol, ConnMutex, ReconnectionHandler,
                   MaxRetries, AutoReconnect, StopReconnect, conns, ret,
                   retries, rd, symWrite, panic, phase, newArgs, authCount,
                   cred, reconnLog, waitCancelled>>

\* Disconnect: Lock; if Conn != nil { Conn.Close(); Conn = nil }; Unlock
DisconnectConn(t) ==
    /\ panic = "none"
    /\ pc[t] = "d_lock" /\ ConnMutex = NULL
    /\ IF Conn # NULL
       THEN /\ conns' = [conns EXCEPT ![Conn] = "closed"]
            /\ Conn' = NULL
       ELSE UNCHANGED <<conns, Conn>>
    /\ pc' = [pc EXCEPT ![t] = "idle"]
    /\ UNCHANGED <<restVars, frameVars, APIKey, Symbol, ConnMutex, ReconnectionHandler,
                   MaxRetries, AutoReconnect, StopReconnect, ret, retries,
                   rd, symWrite, panic, phase, newArgs,
                   authCount, cred, reconnLog, waitCancelled>>

(* ----------------------------- SetSymbol ------------------------------ *)
\* SetSymbol(symbol), with a symbol list other than the stored one: the
\* store to client.Symbol begins
SetSymbolBegin(t, symbol) ==
    /\ panic = "none"
    /\ t \in Callers /\ pc[t] = "idle" /\ phase = "ready"
    /\ symWrite = NoWrite /\ symbol # Symbol
    /\ symWrite' = symbol
    /\ pc' = [pc EXCEPT ![t] = "s_write"]
    /\ UNCHANGED <<restVars, frameVars, APIKey, Symbol, Conn, ConnMutex, ReconnectionHandler,
                   MaxRetries, AutoReconnect, StopReconnect, conns, ret,
                   retries, rd, panic, phase, newArgs,
                   authCount, cred, reconnLog, waitCancelled>>

\* SetSymbol(symbol): client.Symbol = symbol is complete
SetSymbolEnd(t) ==
    /\ panic = "none"
    /\ pc[t] = "s_write"
    /\ Symbol' = symWrite
    /\ symWrite' = NoWrite
    /\ pc' = [pc EXCEPT ![t] = "idle"]
    /\ UNCHANGED <<restVars, frameVars, APIKey, Conn, ConnMutex, ReconnectionHandler, MaxRetries,
                   AutoReconnect, StopReconnect, conns, ret, retries, rd,
                   panic, phase, newArgs, authCount, cred,
                   reconnLog, waitCancelled>>

(* ----------------------------- wsReadPump ----------------------------- *)
\* wsReadPump: client.Conn.ReadMessage() evaluates client.Conn, without
\* the mutex, and blocks on that transport; a nil Conn is a nil-pointer
\* dereference.  The frame of the iteration before is gone.
PumpRead(p) ==
    /\ panic = "none"
    /\ p \in Pumps /\ pc[p] = "read"
    /\ IF Conn = NULL
       THEN /\ panic' = "nil Conn in ReadMessage"
            /\ UNCHANGED <<pc, rd, frame>>
       ELSE /\ rd' = [rd EXCEPT ![p] = Conn]
            /\ pc' = [pc EXCEPT ![p] = "blocked"]
            /\ frame' = [frame EXCEPT ![p] = NoFrame]
            /\ UNCHANGED panic
    /\ UNCHANGED <<MessageHandler, ConnectedHandler, call, arrived>>
    /\ UNCHANGED <<restVars, APIKey, Symbol, Conn, ConnMutex, ReconnectionHandler,
                   MaxRetries, AutoReconnect, StopReconnect, conns, ret,
                   retries, symWrite, phase, newArgs,
                   authCount, cred, reconnLog, waitCancelled>>

\* wsReadPump: ReadMessage returns a frame; it is dispatched and the loop
\* goes on to the next read
PumpFrame(p) ==
    /\ panic = "none"
    /\ p \in Pumps /\ pc[p] = "blocked"
    /\ conns[rd[p]] = "open"
    /\ rd' = [rd EXCEPT ![p] = NULL]
    /\ pc' = [pc EXCEPT ![p] = "read"]
    /\ UNCHANGED <<restVars, frameVars, APIKey, Symbol, Conn, ConnMutex, ReconnectionHandler,
                   MaxRetries, AutoReconnect, StopReconnect, conns, ret,
                   retries, symWrite, panic, phase, newArgs,
                   authCount, cred, reconnLog, waitCancelled>>

\* wsReadPump: ReadMessage returns an error (the transport failed or was
\* closed); return, which runs the deferred teardown
PumpReadError(p) ==
    /\ panic = "none"
    /\ p \in Pumps /\ pc[p] = "blocked"
    /\ conns[rd[p]] \in {"broken", "closed"}
    /\ pc' = [pc EXCEPT ![p] = "teardown"]
    /\ UNCHANGED <<restVars, frameVars, APIKey, Symbol, Conn, ConnMutex, ReconnectionHandler,
                   MaxRetries, AutoReconnect, StopReconnect, conns, ret,
                   retries, rd, symWrite, panic, phase, newArgs,
                   authCount, cred, reconnLog, waitCancelled>>

\* mutant: the teardown reconnects whatever AutoReconnect says
PumpTeardownAlwaysReconnects(p) ==
    /\ panic = "none"
    /\ p \in Pumps /\ pc[p] = "teardown"
    /\ ConnMutex = NULL
    /\ IF Conn = NULL
       THEN /\ panic' = "nil Conn in Close"
            /\ UNCHANGED <<conns, Conn, pc, retries, rd>>
       ELSE /\ conns' = [conns EXCEPT ![Conn] = "closed"]
            /\ Conn' = NULL
            /\ pc' = [pc EXCEPT ![p] = "rc_top"]
            /\ retries' = [retries EXCEPT ![p] = 0]
            /\ rd' = [rd EXCEPT ![p] = NULL]
            /\ UNCHANGED panic
    /\ UNCHANGED <<restVars, frameVars, APIKey, Symbol, ConnMutex, ReconnectionHandler,
                   MaxRetries, AutoReconnect, StopReconnect, ret,
                   symWrite, phase, newArgs, authCount,
                   cred, reconnLog, waitCancelled>>

\* mutant: the teardown calls reconnect() before it unlocks the mutex
PumpTeardownReconnectsUnderLock(p) ==
    /\ panic = "none"
    /\ p \in Pumps /\ pc[p] = "teardown"
    /\ ConnMutex = NULL
    /\ IF Conn = NULL
       THEN /\ panic' = "nil Conn in Close"
            /\ UNCHANGED <<conns, Conn, ConnMutex, pc, retries, rd>>
       ELSE /\ conns' = [conns EXCEPT ![Conn] = "closed"]
            /\ Conn' = NULL
            /\ ConnMutex' = IF AutoReconnect THEN p ELSE NULL
            /\ pc' = [pc EXCEPT ![p] = IF AutoReconnect THEN "rc_top" ELSE "done"]
            /\ retries' = [retries EXCEPT ![p] = 0]
            /\ rd' = [rd EXCEPT ![p] = NULL]
            /\ UNCHANGED panic
    /\ UNCHANGED <<restVars, frameVars, APIKey, Symbol, ReconnectionHandler,
                   MaxRetries, AutoReconnect, StopReconnect, ret,
                   symWrite, phase, newArgs, authCount,
                   cred, reconnLog, waitCancelled>>

\* wsReadPump, deferred: Lock; Conn.Close(); Conn = nil; Unlock;
\* if AutoReconnect { reconnect() }.  Close on a nil Conn is a nil-pointer
\* dereference.
PumpTeardown(p) ==
    /\ panic = "none"
    /\ p \in Pumps /\ pc[p] = "teardown"
    /\ ConnMutex = NULL
    /\ IF Conn = NULL
       THEN /\ panic' = "nil Conn in Close"
            /\ UNCHANGED <<conns, Conn, pc, retries, rd>>
       ELSE /\ conns' = [conns EXCEPT ![Conn] = "closed"]
            /\ Conn' = NULL
            /\ pc' = [pc EXCEPT ![p] = IF AutoReconnect THEN "rc_top" ELSE "done"]
            /\ retries' = [retries EXCEPT ![p] = 0]
            /\ rd' = [rd EXCEPT ![p] = NULL]
            /\ UNCHANGED panic
    /\ UNCHANGED <<restVars, frameVars, APIKey, Symbol, ConnMutex, ReconnectionHandler,
                   MaxRetries, AutoReconnect, StopReconnect, ret,
                   symWrite, phase, newArgs, authCount,
                   cred, reconnLog, waitCancelled>>

(* ----------------------------- reconnect ------------------------------ *)
\* mutant: the retry limit is off by one
RetriesExhaustedEarly(n) == n >= MaxRetries

\* `if retries > client.MaxRetries`
RetriesExhausted(n) == n > MaxRetries

\* reconnect: retries++; if retries > MaxRetries { return };
\* ReconnectionHandler(retries) if set; call Connect()
ReconnectAttempt(p) ==
    /\ panic = "none"
    /\ p \in Pumps /\ pc[p] = "rc_top"
    /\ retries' = [retries EXCEPT ![p] = @ + 1]
    /\ IF RetriesExhausted(retries[p] + 1)
       THEN /\ pc' = [pc EXCEPT ![p] = "done"]
            /\ UNCHANGED reconnLog
       ELSE /\ pc' = [pc EXCEPT ![p] = "c_lock"]
            /\ reconnLog' = IF ReconnectionHandler
                            THEN [reconnLog EXCEPT ![p] = Append(@, retries[p] + 1)]
                            ELSE reconnLog
    /\ UNCHANGED <<restVars, frameVars, APIKey, Symbol, Conn, ConnMutex, ReconnectionHandler,
                   MaxRetries, AutoReconnect, StopReconnect, conns, ret, rd,
                   symWrite, panic, phase, newArgs, authCount,
                   cred, waitCancelled>>

\* mutant: reconnect gives up after the first failed Connect
ReconnectAfterConnectGivesUp(p) ==
    /\ panic = "none"
    /\ p \in Pumps /\ pc[p] = "c_ret"
    /\ pc' = [pc EXCEPT ![p] = "done"]
    /\ ret' = [ret EXCEPT ![p] = "none"]
    /\ cred' = [cred EXCEPT ![p] = ""]
    /\ UNCHANGED <<restVars, frameVars, APIKey, Symbol, Conn, ConnMutex, ReconnectionHandler,
                   MaxRetries, AutoReconnect, StopReconnect, conns, retries,
                   rd, symWrite, panic, phase, newArgs,
                   authCount, reconnLog, waitCancelled>>

\* mutant: reconnect goes on after a Connect that succeeded
ReconnectAfterConnectAlwaysRetries(p) ==
    /\ panic = "none"
    /\ p \in Pumps /\ pc[p] = "c_ret"
    /\ pc' = [pc EXCEPT ![p] = "rc_wait"]
    /\ ret' = [ret EXCEPT ![p] = "none"]
    /\ cred' = [cred EXCEPT ![p] = ""]
    /\ UNCHANGED <<restVars, frameVars, APIKey, Symbol, Conn, ConnMutex, ReconnectionHandler,
                   MaxRetries, AutoReconnect, StopReconnect, conns, retries,
                   rd, symWrite, panic, phase, newArgs,
                   authCount, reconnLog, waitCancelled>>

\* reconnect: err := client.Connect(); if err == nil { return }; else
\* enter the select with a new time.After(RetryInterval)
ReconnectAfterConnect(p) ==
    /\ panic = "none"
    /\ p \in Pumps /\ pc[p] = "c_ret"
    /\ pc' = [pc EXCEPT ![p] = IF ret[p] = "nil" THEN "done" ELSE "rc_wait"]
    /\ ret' = [ret EXCEPT ![p] = "none"]
    /\ cred' = [cred EXCEPT ![p] = ""]
    /\ UNCHANGED <<restVars, frameVars, APIKey, Symbol, Conn, ConnMutex, ReconnectionHandler,
                   MaxRetries, AutoReconnect, StopReconnect, conns, retries,
                   rd, symWrite, panic, phase, newArgs,
                   authCount, reconnLog, waitCancelled>>

\* select { case <-time.After(RetryInterval): }  the retry interval has
\* elapsed and the select takes this case: loop to the next attempt.  When
\* StopReconnect is closed too, Go's select takes either ready case.
SelectTimer(p) ==
    /\ panic = "none"
    /\ p \in Pumps /\ pc[p] = "rc_wait"
    /\ pc' = [pc EXCEPT ![p] = "rc_top"]
    /\ UNCHANGED <<restVars, frameVars, APIKey, Symbol, Conn, ConnMutex, ReconnectionHandler,
                   MaxRetries, AutoReconnect, StopReconnect, conns, ret,
                   retries, rd, symWrite, panic, phase, newArgs, authCount,
                   cred, reconnLog, waitCancelled>>

\* select { case <-client.StopReconnect: return }
SelectStop(p) ==
    /\ panic = "none"
    /\ p \in Pumps /\ pc[p] = "rc_wait" /\ StopReconnect = "closed"
    /\ pc' = [pc EXCEPT ![p] = "done"]
    /\ UNCHANGED <<restVars, frameVars, APIKey, Symbol, Conn, ConnMutex, ReconnectionHandler,
                   MaxRetries, AutoReconnect, StopReconnect, conns, ret,
                   retries, rd, symWrite, panic, phase, newArgs, authCount,
                   cred, reconnLog, waitCancelled>>

(* ---------------------------- environment ----------------------------- *)
\* the network fails an open transport: its reads return an error from
\* now on
Drop(h) ==
    /\ panic = "none"
    /\ h \in ConnIds /\ conns[h] = "open"
    /\ conns' = [conns EXCEPT ![h] = "broken"]
    /\ UNCHANGED <<restVars, frameVars, APIKey, Symbol, Conn, ConnMutex, ReconnectionHandler,
                   MaxRetries, AutoReconnect, StopReconnect, pc, ret,
                   retries, rd, symWrite, panic, phase,
                   newArgs, authCount, cred, reconnLog, waitCancelled>>

(* --------------------------- inbound frames --------------------------- *)
\* A frame is its text, the first byte of the text, what the text is as
\* JSON ("object", "array", "malformed": not JSON at all) and, for an
\* object, its members: name -> [t: JSON type, v: value].  The value of a
\* "ts" member is the sequence of its characters, strconv.ParseInt reading
\* it character by character.
Str(x) == [t |-> "string", v |-> x]
Num(x) == [t |-> "number", v |-> x]
Object(raw, fields) == [raw |-> raw, first |-> "{", kind |-> "object", fields |-> fields]
Other(raw, first, kind) == [raw |-> raw, first |-> first, kind |-> kind, fields |-> <<>>]

QuoteFields(ts) ==
    "symbol" :> Str("EURUSD") @@ "bid" :> Num("1.1") @@ "ask" :> Num("1.2")
       @@ "mid" :> Num("1.15") @@ "ts" :> ts

\* the frames the feed sends
Frames == <<
    Object("{\"symbol\":\"EURUSD\",\"bid\":1.1,\"ask\":1.2,\"mid\":1.15,\"ts\":\"1700000000123\"}",
           QuoteFields(Str(<<"1","7","0","0","0","0","0","0","0","0","1","2","3">>))),
    Object("{\"status\":\"connected\",\"message\":\"ok\"}",
           "status" :> Str("connected") @@ "message" :> Str("ok")),
    Object("{\"status\":\"error\",\"message\":\"bad key\"}",
           "status" :> Str("error") @@ "message" :> Str("bad key")),
    Other("PONG", "P", "malformed"),
    Other("[1,2]", "[", "array"),
    Object("{\"status\":\"error\",\"message\":\"late\",\"ts\":\"5\"}",
           "status" :> Str("error") @@ "message" :> Str("late") @@ "ts" :> Str(<<"5">>)),
    Object("{\"symbol\":\"EURUSD\",\"bid\":1.1,\"ask\":1.2,\"mid\":1.15,\"ts\":\"abc\"}",
           QuoteFields(Str(<<"a","b","c">>))),
    Object("{\"symbol\":\"EURUSD\",\"bid\":1.1,\"ask\":1.2,\"mid\":1.15,\"ts\":\"9223372036855\"}",
           QuoteFields(Str(<<"9","2","2","3","3","7","2","0","3","6","8","5","5">>))),
    Object("{\"symbol\":\"EURUSD\",\"bid\":\"1.1\",\"ts\":\"1700000000123\"}",
           "symbol" :> Str("EURUSD") @@ "bid" :> Str("1.1")
              @@ "ts" :> Str(<<"1","7","0","0","0","0","0","0","0","0","1","2","3">>)),
    Object("{\"status\":\"connected\",\"message\":\"ok\",\"symbol\":\"EURUSD\",\"ts\":\"7\"}",
           "status" :> Str("connected") @@ "message" :> Str("ok")
              @@ "symbol" :> Str("EURUSD") @@ "ts" :> Str(<<"7">>)),
    Object("{\"status\":1,\"message\":\"ok\"}",
           "status" :> Num("1") @@ "message" :> Str("ok")),
    Object("{\"symbol\":\"EURUSD\",\"bid\":1.1,\"ask\":1.2,\"mid\":1.15,\"ts\":\"-1\"}",
           QuoteFields(Str(<<"-","1">>))),
    [raw |-> " {\"status\":\"connected\",\"message\":\"ok\"}", first |-> " ",
     kind |-> "object",
     fields |-> "status" :> Str("connected") @@ "message" :> Str("ok")],
    Other("{oops", "{", "malformed"),
    Object("{\"symbol\":\"EURUSD\",\"bid\":1.1,\"ask\":1.2,\"mid\":1.15,\"ts\":\"9223372036854775808\"}",
           QuoteFields(Str(<<"9","2","2","3","3","7","2","0","3","6","8","5","4","7","7","5","8","0","8">>))),
    [raw |-> " {\"symbol\":\"EURUSD\",\"bid\":1.1,\"ask\":1.2,\"mid\":1.15,\"ts\":\"1700000000123\"}",
     first |-> " ", kind |-> "object",
     fields |-> QuoteFields(Str(<<"1","7","0","0","0","0","0","0","0","0","1","2","3">>))]
  >>

FrameIds == 1..Len(Frames)

\* strings.HasPrefix(msgStr, prefix), for a prefix of one byte
HasPrefix(f, prefix) == f.first = prefix

\* the members json.Unmarshal stores into, with their Go types as JSON types
ConnectedMessage == [status |-> "string", message |-> "string"]
QuoteMessage ==
    [symbol |-> "string", bid |-> "number", ask |-> "number",
     mid |-> "number", ts |-> "string"]

\* the zero values of the two structs
ZeroConnectedMessage == [status |-> "", message |-> ""]
ZeroQuoteMessage ==
    [symbol |-> "", bid |-> "0", ask |-> "0", mid |-> "0", ts |-> <<>>]

\* json.Unmarshal(message, &v) returns an error: the text is not JSON, is
\* not an object, or a member v has a field for holds a value of another
\* JSON type.  Members v has no field for are skipped.
UnmarshalError(f, struct) ==
    \/ f.kind # "object"
    \/ \E k \in DOMAIN f.fields \cap DOMAIN struct : f.fields[k].t # struct[k]

\* v after json.Unmarshal(message, &v), v being zero before
Unmarshal(f, struct, zero) ==
    [k \in DOMAIN struct |->
        IF f.kind = "object" /\ k \in DOMAIN f.fields /\ f.fields[k].t = struct[k]
        THEN f.fields[k].v
        ELSE zero[k]]

(* ------------------------ 64-bit integers ----------------------------- *)
\* An int64 is [neg, mag]: its sign and its magnitude as a sequence of
\* limbs in base LimbBase, least significant first, without leading zero
\* limbs (zero is <<>>), so that the values near 2^63 can be computed with.
LimbBase == 1000

\* 2^63 and 2^64
Two63 == <<808, 775, 854, 36, 372, 223, 9>>
Two64 == <<616, 551, 709, 73, 744, 446, 18>>

\* time.Millisecond, in nanoseconds
Millisecond == 1000000

RECURSIVE Trim(_)
Trim(m) ==
    IF m = <<>> THEN <<>>
    ELSE IF m[Len(m)] = 0 THEN Trim(SubSeq(m, 1, Len(m) - 1))
    ELSE m

Limb(m, i) == IF i <= Len(m) THEN m[i] ELSE 0

\* m * k + c, for a small k
RECURSIVE MulSmall(_, _, _)
MulSmall(m, k, c) ==
    IF m = <<>>
    THEN IF c = 0 THEN <<>> ELSE <<c % LimbBase>> \o MulSmall(<<>>, k, c \div LimbBase)
    ELSE LET x == Head(m) * k + c
         IN  <<x % LimbBase>> \o MulSmall(Tail(m), k, x \div LimbBase)

\* -1, 0, 1 as a < b, a = b, a > b; i is the limb compared next
RECURSIVE CmpFrom(_, _, _)
CmpFrom(a, b, i) ==
    IF i = 0 THEN 0
    ELSE IF Limb(a, i) < Limb(b, i) THEN -1
    ELSE IF Limb(a, i) > Limb(b, i) THEN 1
    ELSE CmpFrom(a, b, i - 1)

Cmp(a, b) == CmpFrom(a, b, IF Len(a) > Len(b) THEN Len(a) ELSE Len(b))

\* a - b - borrow for a >= b, limb by limb
RECURSIVE SubFrom(_, _, _, _)
SubFrom(a, b, i, borrow) ==
    IF i > Len(a) THEN <<>>
    ELSE LET x == Limb(a, i) - Limb(b, i) - borrow
         IN  IF x < 0
             THEN <<x + LimbBase>> \o SubFrom(a, b, i + 1, 1)
             ELSE <<x>> \o SubFrom(a, b, i + 1, 0)

Sub(a, b) == Trim(SubFrom(a, b, 1, 0))

\* a mod m, subtracting m * 10^k for k, k-1, .. 0
RECURSIVE ModFrom(_, _, _)
ModFrom(a, m, k) ==
    IF k < 0 THEN a
    ELSE LET mk == MulSmall(m, 10 ^ k, 0)
         IN  IF Cmp(a, mk) >= 0
             THEN ModFrom(Sub(a, mk), m, k)
             ELSE ModFrom(a, m, k - 1)

\* the int64 that the bits of the mathematical integer v are: v wrapped
\* into -2^63 .. 2^63 - 1, for |v| < 2^64 * 10^7
Wrap64(v) ==
    LET r == ModFrom(v.mag, Two64, 6)
        u == IF v.neg /\ r # <<>> THEN Sub(Two64, r) ELSE r
    IN  IF Cmp(u, Two63) >= 0
        THEN [neg |-> TRUE, mag |-> Sub(Two64, u)]
        ELSE [neg |-> FALSE, mag |-> u]

\* v * k in int64 arithmetic, which wraps
Int64Mul(v, k) == Wrap64([neg |-> v.neg, mag |-> MulSmall(v.mag, k, 0)])

\* v mod 1000, between 0 and 999
Mod1000(v) ==
    IF v.neg THEN (LimbBase - Limb(v.mag, 1)) % LimbBase ELSE Limb(v.mag, 1)

(* ------------------------- strconv.ParseInt --------------------------- *)
Digit ==
    "0" :> 0 @@ "1" :> 1 @@ "2" :> 2 @@ "3" :> 3 @@ "4" :> 4 @@ "5" :> 5
       @@ "6" :> 6 @@ "7" :> 7 @@ "8" :> 8 @@ "9" :> 9

\* the number the digits s are, after the digits before them gave acc
RECURSIVE DigitsValue(_, _)
DigitsValue(s, acc) ==
    IF s = <<>> THEN acc
    ELSE DigitsValue(Tail(s), MulSmall(acc, 10, Digit[Head(s)]))

\* strconv.ParseInt(s, 10, 64): an optional sign and one or more decimal
\* digits, the value within -2^63 .. 2^63 - 1; anything else is an error
ParseInt(s) ==
    LET signed == s # <<>> /\ Head(s) \in {"+", "-"}
        digits == IF signed THEN Tail(s) ELSE s
        neg    == signed /\ Head(s) = "-"
        syntax == digits = <<>> \/ \E i \in 1..Len(digits) : digits[i] \notin DOMAIN Digit
        mag    == DigitsValue(digits, <<>>)
        range  == IF neg THEN Cmp(mag, Two63) > 0 ELSE Cmp(mag, Two63) >= 0
    IN  IF syntax \/ range
        THEN [err |-> TRUE, val |-> [neg |-> FALSE, mag |-> <<>>]]
        ELSE [err |-> FALSE, val |-> [neg |-> neg /\ mag # <<>>, mag |-> mag]]

(* ----------------------------- time.Format ---------------------------- *)
\* The ".000" of time.Unix(0, nsec).Format("2006-01-02 15:04:05.000"): the
\* milliseconds within the second of the instant nsec nanoseconds from the
\* epoch, the second being the one the instant lies in (sec is rounded
\* down for an instant before the epoch).
FormatMillis(nsec) ==
    IF nsec.neg
    THEN LET up == IF Limb(nsec.mag, 1) = 0 /\ Limb(nsec.mag, 2) = 0 THEN 0 ELSE 1
         IN  (LimbBase - ((Limb(nsec.mag, 3) + up) % LimbBase)) % LimbBase
    ELSE Limb(nsec.mag, 3)

(* --------------------- wsReadPump: frame handling --------------------- *)
\* frames one transport delivers
MaxFrames == 2

\* mutant: every prefix passes for JSON
LooksLikeJSONAlways(f) == TRUE

\* `strings.HasPrefix(msgStr, "{") || strings.HasPrefix(msgStr, "[")`
LooksLikeJSON(f) == HasPrefix(f, "{") \/ HasPrefix(f, "[")

\* mutant: any status notice counts as the "Connected" message
IsConnectedMessageAnyStatus(f) == ~UnmarshalError(f, ConnectedMessage)

\* `err := json.Unmarshal(message, &connectedMsg); err == nil &&
\*  connectedMsg.Status == "connected"`
IsConnectedMessage(f) ==
    /\ ~UnmarshalError(f, ConnectedMessage)
    /\ Unmarshal(f, ConnectedMessage, ZeroConnectedMessage).status = "connected"

\* the timestamp argument of MessageHandler, of which the milliseconds
\* are kept
Timestamp(tsInt) == FormatMillis(Int64Mul(tsInt, Millisecond))

\* the call of MessageHandler for a frame that is not the "Connected"
\* message, NoCall when the frame is skipped or no handler is set
QuoteCall(f) ==
    LET quote == Unmarshal(f, QuoteMessage, ZeroQuoteMessage)
        tsInt == ParseInt(quote.ts)
    IN  IF UnmarshalError(f, QuoteMessage) THEN NoCall
        ELSE IF tsInt.err THEN NoCall
        ELSE IF ~MessageHandler THEN NoCall
        ELSE [cb |-> "quote", quote |-> quote, millis |-> Timestamp(tsInt.val)]

\* the call of ConnectedHandler for the "Connected" message
ConnectedCall(f) ==
    IF ~ConnectedHandler THEN NoCall
    ELSE [cb |-> "connected",
          msg |-> Unmarshal(f, ConnectedMessage, ZeroConnectedMessage)]

\* mutant: the quote is tried before the "Connected" message
HandlerCallQuoteFirst(f) ==
    IF ~LooksLikeJSON(f) THEN NoCall
    ELSE IF QuoteCall(f) # NoCall THEN QuoteCall(f)
    ELSE IF IsConnectedMessage(f) THEN ConnectedCall(f)
    ELSE NoCall

\* the handler call one iteration of the loop makes for frame f, if any
HandlerCall(f) ==
    IF ~LooksLikeJSON(f) THEN NoCall
    ELSE IF IsConnectedMessage(f) THEN ConnectedCall(f)
    ELSE QuoteCall(f)

\* SetMessageHandler(handler), before the other set-up
SetMessageHandler ==
    /\ panic = "none"
    /\ phase = "new" /\ ~MessageHandler
    /\ MessageHandler' = TRUE
    /\ UNCHANGED <<ConnectedHandler, frame, call, arrived>>
    /\ UNCHANGED <<restVars, APIKey, Symbol, Conn, ConnMutex, ReconnectionHandler,
                   MaxRetries, AutoReconnect, StopReconnect, conns, pc, ret,
                   retries, rd, symWrite, panic, phase, newArgs, authCount,
                   cred, reconnLog, waitCancelled>>

\* SetConnectedHandler(handler), before the other set-up
SetConnectedHandler ==
    /\ panic = "none"
    /\ phase = "new" /\ ~ConnectedHandler
    /\ ConnectedHandler' = TRUE
    /\ UNCHANGED <<MessageHandler, frame, call, arrived>>
    /\ UNCHANGED <<restVars, APIKey, Symbol, Conn, ConnMutex, ReconnectionHandler,
                   MaxRetries, AutoReconnect, StopReconnect, conns, pc, ret,
                   retries, rd, symWrite, panic, phase, newArgs, authCount,
                   cred, reconnLog, waitCancelled>>

\* wsReadPump: ReadMessage returns frame f, the next one of the transport
\* it was called on
PumpReceive(p, f) ==
    /\ panic = "none"
    /\ p \in Pumps /\ pc[p] = "blocked"
    /\ conns[rd[p]] = "open" /\ arrived[rd[p]] < MaxFrames
    /\ arrived' = [arrived EXCEPT ![rd[p]] = @ + 1]
    /\ frame' = [frame EXCEPT ![p] = [id |-> f, conn |-> rd[p],
                                      seq |-> arrived[rd[p]] + 1]]
    /\ rd' = [rd EXCEPT ![p] = NULL]
    /\ pc' = [pc EXCEPT ![p] = "dispatch"]
    /\ UNCHANGED <<MessageHandler, ConnectedHandler, call>>
    /\ UNCHANGED <<restVars, APIKey, Symbol, Conn, ConnMutex, ReconnectionHandler,
                   MaxRetries, AutoReconnect, StopReconnect, conns, ret,
                   retries, symWrite, panic, phase, newArgs, authCount,
                   cred, reconnLog, waitCancelled>>

\* mutant: a frame that leads to no handler call ends the loop
PumpDispatchEndsOnSkip(p) ==
    /\ panic = "none"
    /\ p \in Pumps /\ pc[p] = "dispatch"
    /\ LET c == HandlerCall(Frames[frame[p].id])
       IN  IF c = NoCall
           THEN /\ pc' = [pc EXCEPT ![p] = "teardown"]
                /\ UNCHANGED call
           ELSE /\ pc' = [pc EXCEPT ![p] = "in_cb"]
                /\ call' = [call EXCEPT ![p] = c]
    /\ UNCHANGED <<MessageHandler, ConnectedHandler, frame, arrived>>
    /\ UNCHANGED <<restVars, APIKey, Symbol, Conn, ConnMutex, ReconnectionHandler,
                   MaxRetries, AutoReconnect, StopReconnect, conns, ret,
                   retries, rd, symWrite, panic, phase, newArgs, authCount,
                   cred, reconnLog, waitCancelled>>

\* wsReadPump: the frame is classified; it is skipped and the loop goes to
\* the next read, or its handler is called
PumpDispatch(p) ==
    /\ panic = "none"
    /\ p \in Pumps /\ pc[p] = "dispatch"
    /\ LET c == HandlerCall(Frames[frame[p].id])
       IN  IF c = NoCall
           THEN /\ pc' = [pc EXCEPT ![p] = "read"]
                /\ UNCHANGED call
           ELSE /\ pc' = [pc EXCEPT ![p] = "in_cb"]
                /\ call' = [call EXCEPT ![p] = c]
    /\ UNCHANGED <<MessageHandler, ConnectedHandler, frame, arrived>>
    /\ UNCHANGED <<restVars, APIKey, Symbol, Conn, ConnMutex, ReconnectionHandler,
                   MaxRetries, AutoReconnect, StopReconnect, conns, ret,
                   retries, rd, symWrite, panic, phase, newArgs, authCount,
                   cred, reconnLog, waitCancelled>>

\* wsReadPump: the handler returns and the loop goes to the next read
PumpHandlerReturn(p) ==
    /\ panic = "none"
    /\ p \in Pumps /\ pc[p] = "in_cb"
    /\ pc' = [pc EXCEPT ![p] = "read"]
    /\ call' = [call EXCEPT ![p] = NoCall]
    /\ UNCHANGED <<MessageHandler, ConnectedHandler, frame, arrived>>
    /\ UNCHANGED <<restVars, APIKey, Symbol, Conn, ConnMutex, ReconnectionHandler,
                   MaxRetries, AutoReconnect, StopReconnect, conns, ret,
                   retries, rd, symWrite, panic, phase, newArgs, authCount,
                   cred, reconnLog, waitCancelled>>

\* The receive loop with the frames of the feed, for a caller that has
\* switched reconnection off (MaxRetries 0, EnableAutoReconnect(false)), is
\* constructed with the key k1 and calls neither SetSymbol nor Disconnect:
\* a receive loop ends when its transport fails.
FrameInit == Init /\ APIKey = "k1"

FrameNext ==
    \/ SetMessageHandler
    \/ SetConnectedHandler
    \/ SetReconnectionHandler
    \/ SetMaxRetries(0)
    \/ EnableAutoReconnect(FALSE)
    \/ \E t \in Callers : CallConnect(t)
    \/ \E t \in Threads : ConnectNoop(t)
    \/ \E t \in Threads : ConnectDialOk(t)
    \/ \E t \in Threads : ConnectGo(t)
    \/ \E t \in Threads : ConnectAuth(t)
    \/ \E t \in Callers : ConnectReturn(t)
    \/ \E p \in Pumps : PumpRead(p)
    \/ \E p \in Pumps, f \in FrameIds : PumpReceive(p, f)
    \/ \E p \in Pumps : PumpDispatch(p)
    \/ \E p \in Pumps : PumpHandlerReturn(p)
    \/ \E p \in Pumps : PumpReadError(p)
    \/ \E p \in Pumps : PumpTeardown(p)
    \/ \E h \in ConnIds : Drop(h)

FrameSpec == FrameInit /\ [][FrameNext]_vars

\* frames of three kinds: a quote, the "Connected" message, a text line
OrderFrames == {1, 2, 4}

\* The receive loops of a caller that connects, disconnects and connects
\* again while frames of OrderFrames arrive; reconnection is off and the
\* transports do not fail by themselves.
OrderNext ==
    \/ SetMessageHandler
    \/ SetConnectedHandler
    \/ SetReconnectionHandler
    \/ SetMaxRetries(0)
    \/ EnableAutoReconnect(FALSE)
    \/ \E t \in Callers : CallConnect(t)
    \/ \E t \in Threads : ConnectNoop(t)
    \/ \E t \in Threads : ConnectDialOk(t)
    \/ \E t \in Threads : ConnectGo(t)
    \/ \E t \in Threads : ConnectAuth(t)
    \/ \E t \in Callers : ConnectReturn(t)
    \/ \E t \in Callers : DisconnectClose(t)
    \/ \E t \in Callers : DisconnectConn(t)
    \/ \E p \in Pumps : PumpRead(p)
    \/ \E p \in Pumps, f \in OrderFrames : PumpReceive(p, f)
    \/ \E p \in Pumps : PumpDispatch(p)
    \/ \E p \in Pumps : PumpHandlerReturn(p)
    \/ \E p \in Pumps : PumpReadError(p)
    \/ \E p \in Pumps : PumpTeardown(p)

OrderSpec == FrameInit /\ [][OrderNext]_vars

\* frames that begin like JSON and are no quote: JSON that is cut off, an
\* array, a quote with a bid of the wrong type, a quote with a ts that is
\* no number
BrokenFrames == {5, 7, 9, 14}

\* the feed sends a broken frame first on every transport, any frame after
BrokenFirstReceive(p, f) ==
    /\ p \in Pumps /\ rd[p] # NULL
    /\ arrived[rd[p]] = 0 => f \in BrokenFrames
    /\ PumpReceive(p, f)

\* The receive loop, as in FrameSpec, of a feed whose first frame on every
\* transport is broken.
BrokenNext ==
    \/ SetMessageHandler
    \/ SetConnectedHandler
    \/ SetReconnectionHandler
    \/ SetMaxRetries(0)
    \/ EnableAutoReconnect(FALSE)
    \/ \E t \in Callers : CallConnect(t)
    \/ \E t \in Threads : ConnectNoop(t)
    \/ \E t \in Threads : ConnectDialOk(t)
    \/ \E t \in Threads : ConnectGo(t)
    \/ \E t \in Threads : ConnectAuth(t)
    \/ \E t \in Callers : ConnectReturn(t)
    \/ \E p \in Pumps : PumpRead(p)
    \/ \E p \in Pumps, f \in FrameIds : BrokenFirstReceive(p, f)
    \/ \E p \in Pumps : PumpDispatch(p)
    \/ \E p \in Pumps : PumpHandlerReturn(p)
    \/ \E p \in Pumps : PumpReadError(p)
    \/ \E p \in Pumps : PumpTeardown(p)
    \/ \E h \in ConnIds : Drop(h)

BrokenSpec == FrameInit /\ [][BrokenNext]_vars

\* Connect's WriteMessage fails whenever reconnect() called the Connect
SendFailConnectAuth(t) ==
    /\ ConnectAuth(t)
    /\ t \in Pumps => ret'[t] = "send error"

\* The client of a caller that connects and never calls Disconnect or
\* SetSymbol, in a network where every Dial succeeds while a transport is
\* left, every auth frame written during a reconnection fails to be sent,
\* and transports fail.
SendFailNext ==
    \/ SetReconnectionHandler
    \/ \E n \in 0..RetryBound : SetMaxRetries(n)
    \/ \E b \in BOOLEAN : EnableAutoReconnect(b)
    \/ \E t \in Callers : CallConnect(t)
    \/ \E t \in Threads : ConnectNoop(t)
    \/ \E t \in Threads : ConnectDialOk(t)
    \/ \E t \in Threads : ConnectGo(t)
    \/ \E t \in Threads : SendFailConnectAuth(t)
    \/ \E t \in Callers : ConnectReturn(t)
    \/ \E p \in Pumps : PumpRead(p)
    \/ \E p \in Pumps : PumpFrame(p)
    \/ \E p \in Pumps : PumpReadError(p)
    \/ \E p \in Pumps : PumpTeardown(p)
    \/ \E p \in Pumps : ReconnectAttempt(p)
    \/ \E p \in Pumps : ReconnectAfterConnect(p)
    \/ \E p \in Pumps : SelectTimer(p)
    \/ \E h \in ConnIds : Drop(h)

SendFailSpec == Init /\ [][SendFailNext]_vars

(* ----------------------------- REST client ---------------------------- *)
\* The REST client (package tradermade) is another program than the feed
\* client: one goroutine calls one operation at a time, and an operation is
\* one HTTP GET and the decoding of its response.

\* http.StatusOK
StatusOK == 200

\* a call of no operation, no request, no response, no result
NoRequest == [op |-> "none", interval |-> "", period |-> <<>>]
NoURL == [path |-> "", interval |-> "", period |-> 0]
NoResponse == [status |-> 0, body |-> 0]
NoResult == [data |-> <<>>, err |-> "none"]

\* JSON array and JSON object members of a response body
Arr(x) == [t |-> "array", v |-> x]
Obj(x) == [t |-> "object", v |-> x]

\* a response body: its text, and what it is as JSON, as for a frame
Body(raw, fields) == [raw |-> raw, kind |-> "object", fields |-> fields]

\* the response bodies the server sends
Bodies == <<
    Body("{\"endpoint\":\"live\",\"quotes\":[{\"ask\":1.2,\"bid\":1.1,\"mid\":1.15}],\"requested_time\":\"Tue, 14 Nov 2023\",\"timestamp\":1700000000}",
         "endpoint" :> Str("live") @@ "quotes" :> Arr("quotes")
            @@ "requested_time" :> Str("Tue, 14 Nov 2023") @@ "timestamp" :> Num(1700000000)),
    Body("{\"error\":401,\"message\":\"bad key\"}",
         "error" :> Num(401) @@ "message" :> Str("bad key")),
    Body("{\"error\":0,\"message\":\"\",\"endpoint\":\"live\",\"quotes\":[]}",
         "error" :> Num(0) @@ "message" :> Str("") @@ "endpoint" :> Str("live")
            @@ "quotes" :> Arr("none")),
    Body("{\"error\":401,\"message\":[\"bad key\"]}",
         "error" :> Num(401) @@ "message" :> Arr("bad key")),
    [raw |-> "<html>Bad Gateway</html>", kind |-> "malformed", fields |-> <<>>],
    Body("{\"endpoint\":5,\"quotes\":[]}",
         "endpoint" :> Num(5) @@ "quotes" :> Arr("none")),
    Body("{\"base_currency\":\"EUR\",\"quote_currency\":\"GBP\",\"quote\":0.85,\"total\":850,\"requested_time\":\"Tue, 14 Nov 2023\",\"timestamp\":1700000000}",
         "base_currency" :> Str("EUR") @@ "quote_currency" :> Str("GBP")
            @@ "quote" :> Num(85) @@ "total" :> Num(850)
            @@ "requested_time" :> Str("Tue, 14 Nov 2023") @@ "timestamp" :> Num(1700000000)),
    Body("{\"message\":\"invalid\",\"errors\":{\"currency\":\"unknown\"}}",
         "message" :> Str("invalid") @@ "errors" :> Obj("currency"))
  >>

BodyIds == 1..Len(Bodies)

\* the status codes the server answers with
Statuses == {StatusOK, 401, 500}

\* the structs a body is unmarshalled into: member -> JSON type
ErrorResponseOK == [error |-> "number", message |-> "string"]
ErrorResponse == [message |-> "string", errors |-> "object"]
LiveRate ==
    [endpoint |-> "string", quotes |-> "array", requested_time |-> "string",
     timestamp |-> "number"]
HistoricalRate ==
    [date |-> "string", endpoint |-> "string", quotes |-> "array",
     request_time |-> "string"]
HistoricalData ==
    [endpoint |-> "string", currency |-> "string", date_time |-> "string",
     open |-> "number", high |-> "number", low |-> "number",
     close |-> "number", request_time |-> "string"]
TimeSeriesRate ==
    [base_currency |-> "string", quote_currency |-> "string",
     start_date |-> "string", end_date |-> "string", endpoint |-> "string",
     quotes |-> "array", request_time |-> "string"]
ConvertResponse ==
    [base_currency |-> "string", quote_currency |-> "string",
     quote |-> "number", total |-> "number", requested_time |-> "string",
     timestamp |-> "number"]

\* the zero value of a struct with the members of struct
ZeroOf(struct) ==
    [k \in DOMAIN struct |->
        IF struct[k] = "number" THEN 0
        ELSE IF struct[k] = "string" THEN "" ELSE "none"]

\* the struct the operation of request r decodes a successful response into
DataStruct(r) ==
    CASE r.op = "live" -> LiveRate
      [] r.op = "historical" /\ r.interval = "day" -> HistoricalRate
      [] r.op = "historical" -> HistoricalData
      [] r.op = "timeseries" -> TimeSeriesRate
      [] OTHER -> ConvertResponse

\* `err := json.Unmarshal(body, &errorResponse); err == nil` and
\* `errorResponse.Error != 0`, errorResponse being an ErrorResponseOK
HasAPIError(b) ==
    /\ ~UnmarshalError(b, ErrorResponseOK)
    /\ Unmarshal(b, ErrorResponseOK, ZeroOf(ErrorResponseOK)).error # 0

\* what an operation returns for the response (status, b): all four
\* operations decode it in the same order
DecodeResponse(r, status, b) ==
    IF status # StatusOK
    THEN [data |-> <<>>, err |-> "API request failed with status code"]
    ELSE IF HasAPIError(b)
    THEN [data |-> <<>>, err |-> "API error"]
    ELSE IF UnmarshalError(b, DataStruct(r))
    THEN [data |-> <<>>, err |-> "failed to parse successful response"]
    ELSE [data |-> <<Unmarshal(b, DataStruct(r), ZeroOf(DataStruct(r)))>>,
          err |-> "nil"]

\* the intervals and the variadic period arguments operations are called with
Intervals ==
    {"daily", "Daily", "hourly", "HOURLY", "minute", "Minute", "hour", "day",
     "weekly", ""}
PeriodArgs == {<<>>, <<0>>, <<1>>, <<3>>, <<4>>, <<15>>, <<24>>, <<4, 3>>, <<3, 4>>}

\* the intervals with an upper-case letter, in lower case
Lower == "Daily" :> "daily" @@ "HOURLY" :> "hourly" @@ "Minute" :> "minute"

\* mutant: the interval is compared as it was given
ToLowerNot(s) == s

\* strings.ToLower on the intervals
ToLower(s) == IF s \in DOMAIN Lower THEN Lower[s] ELSE s

\* isValidPeriodForHourly, isValidPeriodForMinute
isValidPeriodForHourly(period) == period \in {1, 2, 4, 6, 8, 24}
isValidPeriodForMinute(period) == period \in {1, 5, 10, 15, 30}

\* the calls of the four operations
Requests ==
    {[op |-> "live", interval |-> "", period |-> <<>>],
     [op |-> "convert", interval |-> "", period |-> <<>>]}
    \cup {[op |-> "historical", interval |-> i, period |-> <<>>] : i \in Intervals}
    \cup {[op |-> "timeseries", interval |-> i, period |-> p] :
             i \in Intervals, p \in PeriodArgs}

\* the error an operation returns before it sends anything, "nil" if it
\* sends its request
ArgumentError(r) ==
    CASE r.op = "historical" ->
            IF r.interval \in {"minute", "hour", "day"} THEN "nil"
            ELSE "invalid interval"
      [] r.op = "timeseries" ->
            IF ToLower(r.interval) = "daily" THEN "nil"
            ELSE IF ToLower(r.interval) \in {"hourly", "minute"}
            THEN IF Len(r.period) = 0 THEN "period must be provided"
                 ELSE IF ToLower(r.interval) = "hourly"
                 THEN IF isValidPeriodForHourly(r.period[1]) THEN "nil"
                      ELSE "invalid period for hourly interval"
                 ELSE IF isValidPeriodForMinute(r.period[1]) THEN "nil"
                      ELSE "invalid period for minute interval"
            ELSE "invalid interval"
      [] OTHER -> "nil"

\* the URL of the request: its path, and the interval and period parameters
\* of a time series request (period 0: no period parameter)
RequestURL(r) ==
    CASE r.op = "live" -> [path |-> "/live", interval |-> "", period |-> 0]
      [] r.op = "convert" -> [path |-> "/convert", interval |-> "", period |-> 0]
      [] r.op = "historical" ->
            [path |-> CASE r.interval = "minute" -> "/minute_historical"
                        [] r.interval = "hour" -> "/hour_historical"
                        [] OTHER -> "/historical",
             interval |-> "", period |-> 0]
      [] OTHER ->
            [path |-> "/timeseries", interval |-> ToLower(r.interval),
             period |-> IF ToLower(r.interval) = "daily" THEN 0 ELSE r.period[1]]

\* an operation is called: it returns an error for arguments it rejects,
\* else HTTPClient.Get sends its request
RestCall(r) ==
    /\ restPc = "idle"
    /\ restRequest' = r
    /\ IF ArgumentError(r) # "nil"
       THEN /\ restPc' = "returned"
            /\ restResult' = [data |-> <<>>, err |-> ArgumentError(r)]
            /\ restURL' = NoURL
       ELSE /\ restPc' = "sent"
            /\ restResult' = NoResult
            /\ restURL' = RequestURL(r)
    /\ restResponse' = NoResponse
    /\ UNCHANGED feedVars

\* HTTPClient.Get or ioutil.ReadAll fails
RestTransportError ==
    /\ restPc = "sent"
    /\ restPc' = "returned"
    /\ restResult' = [data |-> <<>>, err |-> "transport error"]
    /\ UNCHANGED <<restRequest, restURL, restResponse>>
    /\ UNCHANGED feedVars

\* the response arrives, is decoded, and the operation returns
RestResponse(status, b) ==
    /\ restPc = "sent"
    /\ restPc' = "returned"
    /\ restResponse' = [status |-> status, body |-> b]
    /\ restResult' = DecodeResponse(restRequest, status, Bodies[b])
    /\ UNCHANGED <<restRequest, restURL>>
    /\ UNCHANGED feedVars

\* the caller has taken the result
RestDone ==
    /\ restPc = "returned"
    /\ restPc' = "idle"
    /\ restRequest' = NoRequest
    /\ restURL' = NoURL
    /\ restResponse' = NoResponse
    /\ restResult' = NoResult
    /\ UNCHANGED feedVars

RestNext ==
    \/ \E r \in Requests : RestCall(r)
    \/ RestTransportError
    \/ \E status \in Statuses, b \in BodyIds : RestResponse(status, b)
    \/ RestDone

RestSpec == Init /\ [][RestNext]_vars

(* --------------------------- specification ---------------------------- *)
Next ==
    \/ SetReconnectionHandler
    \/ \E n \in 0..RetryBound : SetMaxRetries(n)
    \/ \E b \in BOOLEAN : EnableAutoReconnect(b)
    \/ \E t \in Callers : CallConnect(t)
    \/ \E t \in Threads : ConnectNoop(t)
    \/ \E t \in Threads : ConnectDialOk(t)
    \/ \E t \in Threads : ConnectDialFail(t)
    \/ \E t \in Threads : ConnectGo(t)
    \/ \E t \in Threads : ConnectAuth(t)
    \/ \E t \in Callers : ConnectReturn(t)
    \/ \E t \in Callers : DisconnectClose(t)
    \/ \E t \in Callers : DisconnectConn(t)
    \/ \E t \in Callers, s \in Symbols : SetSymbolBegin(t, s)
    \/ \E t \in Callers : SetSymbolEnd(t)
    \/ \E p \in Pumps : PumpRead(p)
    \/ \E p \in Pumps : PumpFrame(p)
    \/ \E p \in Pumps : PumpReadError(p)
    \/ \E p \in Pumps : PumpTeardown(p)
    \/ \E p \in Pumps : ReconnectAttempt(p)
    \/ \E p \in Pumps : ReconnectAfterConnect(p)
    \/ \E p \in Pumps : SelectTimer(p)
    \/ \E p \in Pumps : SelectStop(p)
    \/ \E h \in ConnIds : Drop(h)

Spec == Init /\ [][Next]_vars

(* ------------------- reconnection under fairness --------------------- *)
\* The environment of the reconnection promise: Disconnect is never
\* called, and of the MaxRetries attempts of one reconnect() run not all
\* fail in Dial: the dial of the last attempt does not fail.

\* Dial fails, but not in the last attempt of a reconnect() run
LiveConnectDialFail(t) ==
    /\ t \in Pumps => retries[t] < MaxRetries
    /\ ConnectDialFail(t)

\* the network fails a transport that the bound lets the client replace
LiveDrop(h) ==
    /\ h < MaxConns
    /\ Drop(h)

LiveNext ==
    \/ SetReconnectionHandler
    \/ \E n \in 0..RetryBound : SetMaxRetries(n)
    \/ \E b \in BOOLEAN : EnableAutoReconnect(b)
    \/ \E t \in Callers : CallConnect(t)
    \/ \E t \in Threads : ConnectNoop(t)
    \/ \E t \in Threads : ConnectDialOk(t)
    \/ \E t \in Threads : LiveConnectDialFail(t)
    \/ \E t \in Threads : ConnectGo(t)
    \/ \E t \in Threads : ConnectAuth(t)
    \/ \E t \in Callers : ConnectReturn(t)
    \/ \E t \in Callers, s \in Symbols : SetSymbolBegin(t, s)
    \/ \E t \in Callers : SetSymbolEnd(t)
    \/ \E p \in Pumps : PumpRead(p)
    \/ \E p \in Pumps : PumpFrame(p)
    \/ \E p \in Pumps : PumpReadError(p)
    \/ \E p \in Pumps : PumpTeardown(p)
    \/ \E p \in Pumps : ReconnectAttempt(p)
    \/ \E p \in Pumps : ReconnectAfterConnect(p)
    \/ \E p \in Pumps : SelectTimer(p)
    \/ \E h \in ConnIds : LiveDrop(h)

\* Every goroutine that can run does run, and the retry interval elapses
\* (weak fairness); a goroutine waiting in ConnMutex.Lock gets the mutex
\* although others take it in between, sync.Mutex handing it to a waiter
\* that has waited long (strong fairness).  The caller need not call
\* anything, and frames need not arrive.
LiveFairness ==
    /\ \A t \in Threads : WF_vars(ConnectGo(t) \/ ConnectAuth(t))
    /\ \A p \in Pumps :
          /\ SF_vars(ConnectNoop(p) \/ ConnectDialOk(p) \/ LiveConnectDialFail(p))
          /\ SF_vars(PumpTeardown(p))
          /\ WF_vars(PumpRead(p) \/ PumpReadError(p) \/ ReconnectAttempt(p)
                       \/ ReconnectAfterConnect(p) \/ SelectTimer(p))

LiveSpec == Init /\ [][LiveNext]_vars /\ LiveFairness

(* ------------------- handlers that call the client -------------------- *)
\* MessageHandler and ConnectedHandler are code of the caller that runs on
\* the receive loop's goroutine.  Such a handler may call Disconnect or
\* Connect before it returns; these are the same steps as the caller's,
\* taken by pump p while it is in the handler.  The values Connect and
\* Disconnect return go to the handler, and Connect's local cred is gone
\* when the step that ends the call is over.

\* a handler calls Disconnect: close(client.StopReconnect)
HandlerDisconnectClose(p) ==
    /\ panic = "none"
    /\ p \in Pumps /\ pc[p] = "in_cb"
    /\ IF StopReconnect = "closed"
       THEN /\ panic' = "close of closed channel"
            /\ UNCHANGED <<StopReconnect, pc, waitCancelled>>
       ELSE /\ StopReconnect' = "closed"
            /\ waitCancelled' = {q \in Pumps : pc[q] = "rc_wait"}
            /\ pc' = [pc EXCEPT ![p] = "cb_d_lock"]
            /\ UNCHANGED panic
    /\ UNCHANGED <<restVars, frameVars, APIKey, Symbol, Conn, ConnMutex, ReconnectionHandler,
                   MaxRetries, AutoReconnect, conns, ret, retries, rd,
                   symWrite, phase, newArgs, authCount,
                   cred, reconnLog>>

\* Disconnect called by a handler: Lock; if Conn != nil { Conn.Close();
\* Conn = nil }; Unlock; back in the handler
HandlerDisconnectConn(p) ==
    /\ panic = "none"
    /\ p \in Pumps /\ pc[p] = "cb_d_lock" /\ ConnMutex = NULL
    /\ IF Conn # NULL
       THEN /\ conns' = [conns EXCEPT ![Conn] = "closed"]
            /\ Conn' = NULL
       ELSE UNCHANGED <<conns, Conn>>
    /\ pc' = [pc EXCEPT ![p] = "in_cb"]
    /\ UNCHANGED <<restVars, frameVars, APIKey, Symbol, ConnMutex, ReconnectionHandler,
                   MaxRetries, AutoReconnect, StopReconnect, ret, retries,
                   rd, symWrite, panic, phase, newArgs,
                   authCount, cred, reconnLog, waitCancelled>>

\* a handler calls Connect
HandlerCallConnect(p) ==
    /\ panic = "none"
    /\ p \in Pumps /\ pc[p] = "in_cb"
    /\ pc' = [pc EXCEPT ![p] = "cb_c_lock"]
    /\ UNCHANGED <<restVars, frameVars, APIKey, Symbol, Conn, ConnMutex, ReconnectionHandler,
                   MaxRetries, AutoReconnect, StopReconnect, conns, ret,
                   retries, rd, symWrite, panic, phase, newArgs,
                   authCount, cred, reconnLog, waitCancelled>>

\* Connect called by a handler: Lock; Conn != nil; return nil
HandlerConnectNoop(p) ==
    /\ panic = "none"
    /\ p \in Pumps /\ pc[p] = "cb_c_lock" /\ ConnMutex = NULL
    /\ AlreadyConnected
    /\ pc' = [pc EXCEPT ![p] = "in_cb"]
    /\ UNCHANGED <<restVars, frameVars, APIKey, Symbol, Conn, ConnMutex, ReconnectionHandler,
                   MaxRetries, AutoReconnect, StopReconnect, conns, ret,
                   retries, rd, symWrite, panic, phase, newArgs,
                   authCount, cred, reconnLog, waitCancelled>>

\* Connect called by a handler: Lock; Conn == nil; Dial succeeds
HandlerConnectDialOk(p) ==
    /\ panic = "none"
    /\ p \in Pumps /\ pc[p] = "cb_c_lock" /\ ConnMutex = NULL
    /\ ~AlreadyConnected
    /\ \E h \in ConnIds : conns[h] = "none"
    /\ conns' = [conns EXCEPT ![FreshConn] = "open"]
    /\ Conn' = FreshConn
    /\ ConnMutex' = p
    /\ pc' = [pc EXCEPT ![p] = "cb_c_go"]
    /\ UNCHANGED <<restVars, frameVars, APIKey, Symbol, ReconnectionHandler, MaxRetries,
                   AutoReconnect, StopReconnect, ret, retries, rd,
                   symWrite, panic, phase, newArgs, authCount,
                   cred, reconnLog, waitCancelled>>

\* Connect called by a handler: Lock; Conn == nil; Dial fails; return err
HandlerConnectDialFail(p) ==
    /\ panic = "none"
    /\ p \in Pumps /\ pc[p] = "cb_c_lock" /\ ConnMutex = NULL
    /\ ~AlreadyConnected
    /\ Conn' = NULL
    /\ pc' = [pc EXCEPT ![p] = "in_cb"]
    /\ UNCHANGED <<restVars, frameVars, APIKey, Symbol, ConnMutex, ReconnectionHandler,
                   MaxRetries, AutoReconnect, StopReconnect, conns, ret,
                   retries, rd, symWrite, panic, phase, newArgs,
                   authCount, cred, reconnLog, waitCancelled>>

\* Connect called by a handler: go client.wsReadPump()
HandlerConnectGo(p) ==
    /\ panic = "none"
    /\ p \in Pumps /\ pc[p] = "cb_c_go"
    /\ pc' = [pc EXCEPT ![p] = "cb_c_auth", ![Conn] = "read"]
    /\ UNCHANGED <<restVars, frameVars, APIKey, Symbol, Conn, ConnMutex, ReconnectionHandler,
                   MaxRetries, AutoReconnect, StopReconnect, conns, ret,
                   retries, rd, symWrite, panic, phase,
                   newArgs, authCount, cred, reconnLog, waitCancelled>>

\* Connect called by a handler: the auth frame is written, it is sent or
\* not; return (deferred Unlock); back in the handler
HandlerConnectAuth(p) ==
    /\ panic = "none"
    /\ p \in Pumps /\ pc[p] = "cb_c_auth"
    /\ authCount' = [authCount EXCEPT ![Conn] = @ + 1]
    /\ ConnMutex' = NULL
    /\ pc' = [pc EXCEPT ![p] = "in_cb"]
    /\ UNCHANGED <<restVars, frameVars, APIKey, Symbol, Conn, ReconnectionHandler, MaxRetries,
                   AutoReconnect, StopReconnect, conns, ret, retries, rd,
                   symWrite, panic, phase, newArgs, cred, reconnLog,
                   waitCancelled>>

\* the frame of the guard's scenario: a quote
GuardFrames == {1}

\* The client with MessageHandler set, reconnection on with one retry, a
\* feed of quotes, a network that fails transports and dials, a caller
\* that connects and disconnects, and a handler that calls Disconnect or
\* Connect.
GuardNext ==
    \/ SetMessageHandler
    \/ SetReconnectionHandler
    \/ SetMaxRetries(1)
    \/ EnableAutoReconnect(TRUE)
    \/ \E t \in Callers : CallConnect(t)
    \/ \E t \in Threads : ConnectNoop(t)
    \/ \E t \in Threads : ConnectDialOk(t)
    \/ \E t \in Threads : ConnectDialFail(t)
    \/ \E t \in Threads : ConnectGo(t)
    \/ \E t \in Threads : ConnectAuth(t)
    \/ \E t \in Callers : ConnectReturn(t)
    \/ \E t \in Callers : DisconnectClose(t)
    \/ \E t \in Callers : DisconnectConn(t)
    \/ \E p \in Pumps : PumpRead(p)
    \/ \E p \in Pumps, f \in GuardFrames : PumpReceive(p, f)
    \/ \E p \in Pumps : PumpDispatch(p)
    \/ \E p \in Pumps : PumpHandlerReturn(p)
    \/ \E p \in Pumps : HandlerDisconnectClose(p)
    \/ \E p \in Pumps : HandlerDisconnectConn(p)
    \/ \E p \in Pumps : HandlerCallConnect(p)
    \/ \E p \in Pumps : HandlerConnectNoop(p)
    \/ \E p \in Pumps : HandlerConnectDialOk(p)
    \/ \E p \in Pumps : HandlerConnectDialFail(p)
    \/ \E p \in Pumps : HandlerConnectGo(p)
    \/ \E p \in Pumps : HandlerConnectAuth(p)
    \/ \E p \in Pumps : PumpReadError(p)
    \/ \E p \in Pumps : PumpTeardown(p)
    \/ \E p \in Pumps : ReconnectAttempt(p)
    \/ \E p \in Pumps : ReconnectAfterConnect(p)
    \/ \E p \in Pumps : SelectTimer(p)
    \/ \E p \in Pumps : SelectStop(p)
    \/ \E h \in ConnIds : Drop(h)

\* goroutine t takes ConnMutex: in Connect, in Disconnect, in the teardown
Acquire(t) ==
    \/ ConnectNoop(t) \/ ConnectDialOk(t) \/ ConnectDialFail(t)
    \/ DisconnectConn(t)
    \/ PumpTeardown(t)
    \/ HandlerConnectNoop(t) \/ HandlerConnectDialOk(t) \/ HandlerConnectDialFail(t)
    \/ HandlerDisconnectConn(t)

\* goroutine t goes on inside Connect's critical section, to its Unlock
Proceed(t) ==
    \/ ConnectGo(t) \/ ConnectAuth(t)
    \/ HandlerConnectGo(t) \/ HandlerConnectAuth(t)

\* A goroutine inside Connect's critical section goes on: Dial and
\* WriteMessage return (weak fairness).  A goroutine waiting in
\* ConnMutex.Lock gets the mutex although others take it in between
\* (strong fairness, as in LiveFairness).  Nothing else is required to
\* happen.
GuardFairness ==
    \A t \in Threads : WF_vars(Proceed(t)) /\ SF_vars(Acquire(t))

GuardSpec == FrameInit /\ [][GuardNext]_vars /\ GuardFairness

(* ------------------------------ claims -------------------------------- *)
\* transports that were opened and are not closed yet
OpenConns == {h \in ConnIds : conns[h] \in {"open", "broken"}}

\* pumps whose goroutine has been started
Born == {p \in Pumps : pc[p] # "unborn"}

\* C1: a Connect that finds a transport installed when it takes the mutex
\* returns nil and leaves everything as it was: no transport is opened, no
\* receive loop is started, no auth frame is written.
C1_ConnectIsNoopWhenInstalled ==
    [][\A t \in Threads :
          (pc[t] = "c_lock" /\ pc'[t] # "c_lock" /\ Conn # NULL) =>
             /\ pc'[t] = "c_ret" /\ ret'[t] = "nil"
             /\ Conn' = Conn /\ conns' = conns
             /\ Born' = Born
             /\ authCount' = authCount /\ cred' = cred]_vars

\* a caller's Connect has returned nil without writing an auth frame, the
\* installed transport being the one an earlier Connect opened
C1_Witness ==
    \E t \in Callers :
       /\ pc[t] = "c_ret" /\ ret[t] = "nil" /\ cred[t] = ""
       /\ Conn # NULL /\ authCount[Conn] = 1 /\ pc[Conn] = "blocked"

\* C2: at most one transport is open at any time, and an open transport is
\* the one client.Conn holds.
C2_AtMostOneLiveTransport ==
    /\ Cardinality(OpenConns) <= 1
    /\ OpenConns # {} => OpenConns = {Conn}

\* a second transport is installed after the first was closed
C2_Witness ==
    /\ Conn = 2 /\ conns[2] = "open" /\ conns[1] = "closed"
    /\ pc[2] = "blocked"

\* C3: with AutoReconnect, MaxRetries = N, no Disconnect and no dial that
\* succeeds after the first connection, the reconnection handler is called
\* at most N times, and exactly N times once the receive loop's goroutine
\* has ended.
C3_ExactlyMaxRetriesAttempts ==
    (/\ AutoReconnect /\ ReconnectionHandler
     /\ StopReconnect = "open"
     /\ \A h \in ConnIds : h > 1 => conns[h] = "none")
    => /\ Len(reconnLog[1]) <= MaxRetries
       /\ pc[1] = "done" => Len(reconnLog[1]) = MaxRetries

\* the retries ran out after two attempts whose dials failed
C3_Witness ==
    /\ AutoReconnect /\ StopReconnect = "open"
    /\ \A h \in ConnIds : h > 1 => conns[h] = "none"
    /\ pc[1] = "done" /\ MaxRetries >= 2
    /\ Len(reconnLog[1]) = MaxRetries

\* C4 (as claimed): a pump that was in the retry wait when Disconnect
\* closed StopReconnect makes no further attempt: it stays in the wait,
\* is about to leave the loop, or has ended; it never calls the handler
\* and Connect again.
C4_NoAttemptAfterCancelledWait ==
    \A p \in waitCancelled : pc[p] \in {"rc_wait", "rc_top", "done"}

\* C5 (as claimed): once StopReconnect is closed no pump calls the
\* reconnection handler and no pump's reconnect loop calls Connect.
C5_NoAttemptAfterStop ==
    [][StopReconnect = "closed" =>
          \A p \in Pumps :
             /\ reconnLog'[p] = reconnLog[p]
             /\ pc'[p] = "c_lock" => pc[p] = "c_lock"]_vars

\* a JSON string literal whose text needs no escaping
JsonString(x) == "\"" \o x \o "\""

\* the auth frame as the spec gives it: no whitespace between the members
CompactFrame(k, s) ==
    "{" \o JsonString("userKey") \o ":" \o JsonString(k) \o ","
        \o JsonString("symbol") \o ":" \o JsonString(s) \o "}"

\* the auth frame with one space after the comma between the members
SpacedFrame(k, s) ==
    "{" \o JsonString("userKey") \o ":" \o JsonString(k) \o ", "
        \o JsonString("symbol") \o ":" \o JsonString(s) \o "}"

\* the values a read of client.Symbol can have yielded
SymbolValues == Symbols \cup {TornSymbol}

\* C7 (as claimed): every auth frame written is {"userKey":"K","symbol":"S"}
\* with no whitespace outside K and S.
C7_FrameIsCompact ==
    \A t \in Threads :
       cred[t] # "" => \E s \in SymbolValues : cred[t] = CompactFrame(APIKey, s)

\* C7 (amended): every auth frame written is {"userKey":"K", "symbol":"S"},
\* with exactly one space, after the comma between the two members.
C7_FrameHasOneSpace ==
    \A t \in Threads :
       cred[t] # "" => \E s \in SymbolValues : cred[t] = SpacedFrame(APIKey, s)

\* the spec's scenario: a successful Connect with credential k1 and symbols
\* EURUSD,GBPUSD has written the frame with the space
C7_Witness ==
    \E t \in Callers :
       /\ pc[t] = "c_ret" /\ ret[t] = "nil"
       /\ cred[t] = "{\"userKey\":\"k1\", \"symbol\":\"EURUSD,GBPUSD\"}"

C9_DialFailureLeavesNothing ==
    [][\A t \in Threads :
          (pc[t] = "c_lock" /\ pc'[t] = "c_ret" /\ Conn = NULL) =>
             /\ ret'[t] = "dial error"
             /\ Conn' = NULL /\ conns' = conns /\ ConnMutex' = NULL
             /\ Born' = Born
             /\ authCount' = authCount /\ cred' = cred]_vars

\* a caller's Connect has returned the dial error and nothing is installed
C9_Witness ==
    \E t \in Callers :
       /\ pc[t] = "c_ret" /\ ret[t] = "dial error" /\ cred[t] = ""
       /\ Conn = NULL /\ OpenConns = {}

\* C10: when the auth frame's write fails, Connect returns that error, the
\* transport stays installed and open, and the receive loop started for it
\* is still alive.
C10_SendFailureKeepsTransport ==
    [][\A t \in Threads :
          (pc[t] = "c_auth" /\ pc'[t] = "c_ret" /\ ret'[t] # "nil") =>
             /\ ret'[t] = "send error"
             /\ Conn' = Conn /\ Conn \in OpenConns /\ conns' = conns
             /\ pc[Conn] \in {"read", "blocked", "teardown"}
             /\ pc'[Conn] = pc[Conn]]_vars

\* a caller's Connect has returned the send error while its transport is
\* installed and the receive loop blocks in a read on it
C10_Witness ==
    \E t \in Callers :
       /\ pc[t] = "c_ret" /\ ret[t] = "send error"
       /\ Conn # NULL /\ conns[Conn] = "open"
       /\ pc[Conn] = "blocked" /\ rd[Conn] = Conn

\* C6: with AutoReconnect and MaxRetries >= 1, whenever the installed
\* transport h has failed while its receive loop runs, eventually a newer
\* transport is installed with its receive loop running.
C6_ReconnectsAfterDrop ==
    \A h \in ConnIds :
       (/\ AutoReconnect /\ MaxRetries >= 1
        /\ Conn = h /\ conns[h] = "broken"
        /\ pc[h] \in {"read", "blocked"})
       ~> (/\ Conn # NULL /\ Conn # h
           /\ pc[Conn] \in {"read", "blocked"})

\* the first receive loop's second reconnection attempt has installed the
\* second transport and started its receive loop
C6_Witness ==
    /\ AutoReconnect /\ conns[1] = "closed"
    /\ reconnLog[1] = <<1, 2>> /\ pc[1] = "c_auth"
    /\ Conn = 2 /\ pc[2] = "blocked"

\* C11: a Disconnect called when StopReconnect is already closed panics in
\* close(), before ConnMutex.Lock: it never reaches the critical section,
\* and the step that raises the panic leaves Conn, the transports and the
\* mutex as they were.
C11_SecondDisconnectPanicsBeforeLock ==
    [][/\ StopReconnect = "closed" =>
             \A t \in Callers : pc'[t] = "d_lock" => pc[t] = "d_lock"
       /\ (panic = "none" /\ panic' = "close of closed channel") =>
             /\ StopReconnect = "closed"
             /\ Conn' = Conn /\ conns' = conns /\ ConnMutex' = ConnMutex
             /\ pc' = pc]_vars

\* the second Disconnect has panicked while a transport, installed after
\* the first Disconnect, is still installed and open
C11_Witness ==
    /\ panic = "close of closed channel"
    /\ Conn # NULL /\ conns[Conn] = "open"

\* C12 (as claimed): once StopReconnect is closed no Connect call of the
\* caller installs a transport.
C12_NoInstallAfterDisconnect ==
    [][StopReconnect = "closed" =>
          \A t \in Callers :
             (pc[t] = "c_lock" /\ pc'[t] # "c_lock") => Conn' = Conn]_vars

\* C12 (amended): Connect does not look at StopReconnect.  A Connect that
\* takes the mutex after Disconnect with no transport installed dials as
\* before: it installs the new transport, or returns the dial error.
C12_ConnectIgnoresStopReconnect ==
    [][StopReconnect = "closed" =>
          \A t \in Threads :
             (pc[t] = "c_lock" /\ pc'[t] # "c_lock" /\ Conn = NULL) =>
                \/ /\ pc'[t] = "c_go" /\ Conn' # NULL
                   /\ conns[Conn'] = "none" /\ conns'[Conn'] = "open"
                \/ /\ pc'[t] = "c_ret" /\ ret'[t] = "dial error"
                   /\ Conn' = NULL]_vars

\* after a Disconnect, the caller's Connect has returned nil with a new
\* transport installed, authenticated and read by its receive loop
C12_Witness ==
    \E t \in Callers :
       /\ StopReconnect = "closed"
       /\ pc[t] = "c_ret" /\ ret[t] = "nil" /\ cred[t] # ""
       /\ Conn # NULL /\ conns[Conn] = "open" /\ conns[1] = "closed"
       /\ pc[Conn] = "blocked" /\ rd[Conn] = Conn

\* C18 (as claimed): every access to client.Conn is made under ConnMutex,
\* so the receive loop never evaluates client.Conn for its next
\* ReadMessage while another goroutine holds the mutex.
C18_ConnAccessUnderMutex ==
    [][\A p \in Pumps :
          (pc[p] = "read" /\ (pc'[p] = "blocked" \/ panic' # panic)) =>
             ConnMutex = NULL]_vars

\* goroutines started by Connect that have not returned
Alive == {p \in Pumps : pc[p] \notin {"unborn", "done"}}

\* C19 (as claimed): at most one background goroutine of the client is
\* alive, a receive loop or the reconnect loop running in its teardown.
C19_AtMostOneBackgroundTask ==
    Cardinality(Alive) <= 1

\* the frame pump p has read last
FrameOf(p) == Frames[frame[p].id]

\* pump p classifies its frame in this step
Dispatches(p) == pc[p] = "dispatch" /\ pc'[p] # "dispatch"

\* member k of frame f is a JSON string
IsStringMember(f, k) == k \in DOMAIN f.fields /\ f.fields[k].t = "string"

\* a JSON object with a status and a message member, both strings
IsStatusNotice(f) ==
    /\ f.first = "{" /\ f.kind = "object"
    /\ IsStringMember(f, "status") /\ IsStringMember(f, "message")

C14_ConnectedMessageGoesToConnectedHandler ==
    [][\A p \in Pumps :
          LET f == FrameOf(p)
              notice == /\ f.first \in {"{", "["} /\ f.kind = "object"
                        /\ IsStringMember(f, "status")
                        /\ f.fields["status"].v = "connected"
                        /\ "message" \in DOMAIN f.fields => IsStringMember(f, "message")
          IN  /\ (Dispatches(p) /\ notice) =>
                    IF ConnectedHandler
                    THEN /\ pc'[p] = "in_cb"
                         /\ call'[p] =
                               [cb |-> "connected",
                                msg |-> [status |-> "connected",
                                         message |-> IF "message" \in DOMAIN f.fields
                                                     THEN f.fields["message"].v
                                                     ELSE ""]]
                    ELSE pc'[p] = "read" /\ call'[p] = NoCall
              /\ (pc[p] = "in_cb" /\ call[p].cb = "connected" /\ pc'[p] # "in_cb") =>
                    pc'[p] = "read" /\ call'[p] = NoCall]_vars

\* the loop is in ConnectedHandler with the message "ok" of the frame
\* {"status":"connected","message":"ok"}, MessageHandler being set too
C14_Witness ==
    \E p \in Pumps :
       /\ MessageHandler /\ frame[p].id = 2 /\ pc[p] = "in_cb"
       /\ call[p] = [cb |-> "connected",
                     msg |-> [status |-> "connected", message |-> "ok"]]

\* C15: a frame that begins with neither { nor [ leads to no handler call;
\* the loop goes to the next read and the transport stays installed and
\* open.
C15_TextFrameIsSkipped ==
    [][\A p \in Pumps :
          (Dispatches(p) /\ FrameOf(p).first \notin {"{", "["}) =>
             /\ pc'[p] = "read" /\ call'[p] = NoCall
             /\ Conn' = Conn /\ conns' = conns]_vars

\* with both handlers set, the loop has skipped the frame PONG and is
\* about to read again from the transport, which is installed and open
C15_Witness ==
    \E p \in Pumps :
       /\ MessageHandler /\ ConnectedHandler
       /\ frame[p].id = 4 /\ call[p] = NoCall
       /\ pc[p] = "read" /\ frame[p].conn = Conn /\ conns[Conn] = "open"

\* C16 (as claimed): the timestamp MessageHandler is called with has the
\* milliseconds T mod 1000, T being the integer the frame's ts holds.
C16_MillisecondsOfTimestamp ==
    \A p \in Pumps :
       call[p].cb = "quote" =>
          call[p].millis = Mod1000(ParseInt(call[p].quote.ts).val)

\* C17 (as claimed): while a handler runs for a frame of a transport, no
\* handler call for an earlier frame of that transport is still running
\* or still to be made.
C17_HandlersInArrivalOrder ==
    \A p, q \in Pumps :
       (/\ p # q /\ pc[p] = "in_cb"
        /\ frame[q].conn = frame[p].conn /\ frame[q].seq < frame[p].seq)
       => /\ pc[q] # "in_cb"
          /\ pc[q] = "dispatch" => HandlerCall(FrameOf(q)) = NoCall

\* body b carries a non-zero error code: a number member "error" other
\* than 0
CarriesErrorCode(b) ==
    /\ b.kind = "object" /\ "error" \in DOMAIN b.fields
    /\ b.fields["error"].t = "number" /\ b.fields["error"].v # 0

\* C20 (as claimed): an operation that received a response with a status
\* other than 200, or with status 200 and a body carrying a non-zero error
\* code, returns an error and no data; data is only returned with a nil
\* error.
C20_FailureResponseGivesErrorAndNoData ==
    /\ (/\ restPc = "returned" /\ restResponse # NoResponse
        /\ \/ restResponse.status # StatusOK
           \/ CarriesErrorCode(Bodies[restResponse.body]))
       => restResult.err # "nil" /\ restResult.data = <<>>
    /\ restResult.data # <<>> => restResult.err = "nil"

\* positions of a pump inside reconnect(), the Connect it calls included
InReconnect == {"rc_top", "rc_wait", "c_lock", "c_go", "c_auth", "c_ret"}

InConnect == {"c_lock", "c_go", "c_auth", "c_ret"}

\* C22: the attempt numbers one run of reconnect() passes to the
\* reconnection handler are 1, 2, 3, ... without gap or repeat and none is
\* above MaxRetries; the handler is called with n before the Connect of
\* attempt n is entered; after a Connect that returned nil the run ends
\* without another handler call.
C22_AttemptNumbersInOrder ==
    [][\A p \in Pumps :
          /\ reconnLog[p] = [i \in 1..Len(reconnLog[p]) |-> i]
          /\ Len(reconnLog[p]) <= MaxRetries
          /\ reconnLog'[p] # reconnLog[p] =>
                /\ pc[p] = "rc_top" /\ pc'[p] = "c_lock"
                /\ reconnLog'[p] = Append(reconnLog[p], Len(reconnLog[p]) + 1)
          /\ (ReconnectionHandler /\ pc[p] \in InConnect) =>
                Len(reconnLog[p]) = retries[p] /\ retries[p] >= 1
          /\ (pc[p] = "c_ret" /\ ret[p] = "nil" /\ pc'[p] # "c_ret") =>
                pc'[p] = "done"
          /\ pc[p] = "done" => pc'[p] = "done" /\ reconnLog'[p] = reconnLog[p]]_vars

\* the run of the first receive loop has ended after its second attempt,
\* the last one MaxRetries allows, installed the second transport; the
\* handler was called with 1 and 2
C22_Witness ==
    /\ MaxRetries = 2 /\ reconnLog[1] = <<1, 2>>
    /\ pc[1] = "done" /\ Conn = 2 /\ conns[2] = "open"

\* the text of frame f is one space followed by the text of frame g
PaddedFrom(f, g) == f.first = " " /\ f.raw = " " \o g.raw

\* C23 (as claimed): a frame that is whitespace followed by a JSON object
\* is dispatched like the same frame without the whitespace: the same
\* handler call, or none for both.
C23_LeadingWhitespaceIsIgnored ==
    [][\A p \in Pumps : \A g \in FrameIds :
          (Dispatches(p) /\ PaddedFrom(FrameOf(p), Frames[g])) =>
             /\ call'[p] = HandlerCall(Frames[g])
             /\ pc'[p] = IF HandlerCall(Frames[g]) = NoCall THEN "read" ELSE "in_cb"]_vars

\* s is an optional sign followed by one or more decimal digits
IntegerText(s) ==
    LET d == IF s # <<>> /\ Head(s) \in {"+", "-"} THEN Tail(s) ELSE s
    IN  d # <<>> /\ \A i \in 1..Len(d) : d[i] \in DOMAIN Digit

\* a JSON object with the string "connected" as status
IsConnectedNotice(f) ==
    /\ f.kind = "object" /\ IsStringMember(f, "status")
    /\ f.fields["status"].v = "connected"
    /\ "message" \in DOMAIN f.fields => IsStringMember(f, "message")

\* the text is no JSON object whose members fit a quote
NotAQuote(f) ==
    \/ f.kind # "object"
    \/ \E k \in DOMAIN f.fields \cap DOMAIN QuoteMessage : f.fields[k].t # QuoteMessage[k]

\* the ts of the object is a string that is not a base-10 integer
BadTimestamp(f) ==
    /\ f.kind = "object" /\ IsStringMember(f, "ts")
    /\ ~IntegerText(f.fields["ts"].v)

\* a malformed frame: structured text that is no quote, or a quote with a
\* bad ts
Malformed(f) ==
    /\ f.first \in {"{", "["} /\ ~IsConnectedNotice(f)
    /\ NotAQuote(f) \/ BadTimestamp(f)

\* a quote with a ts of at most 18 digits, which is within int64
WellFormedQuote(f) ==
    /\ f.first = "{" /\ ~IsConnectedNotice(f) /\ ~NotAQuote(f)
    /\ IsStringMember(f, "ts") /\ IntegerText(f.fields["ts"].v)
    /\ Len(f.fields["ts"].v) <= 18

\* C24: a malformed frame leads to no handler call and ends nothing: the
\* loop goes to its next read, Conn and the transports stay as they are,
\* nothing panics and no reconnection begins; a well-formed quote or
\* "Connected" message that arrives later on the transport is passed to
\* its handler.
C24_MalformedFrameIsDropped ==
    [][\A p \in Pumps :
          Dispatches(p) =>
             /\ Malformed(FrameOf(p)) =>
                   /\ pc'[p] = "read" /\ call'[p] = NoCall
                   /\ Conn' = Conn /\ conns' = conns /\ panic' = "none"
                   /\ retries' = retries /\ reconnLog' = reconnLog
             /\ (frame[p].seq > 1 /\ WellFormedQuote(FrameOf(p)) /\ MessageHandler) =>
                   pc'[p] = "in_cb" /\ call'[p].cb = "quote"
             /\ (/\ frame[p].seq > 1 /\ FrameOf(p).first = "{"
                 /\ IsConnectedNotice(FrameOf(p)) /\ ConnectedHandler) =>
                   pc'[p] = "in_cb" /\ call'[p].cb = "connected"]_vars

\* the loop of the installed transport, whose first frame was broken, is
\* in MessageHandler with the quote that arrived second
C24_Witness ==
    \E p \in Pumps :
       /\ frame[p].seq = 2 /\ frame[p].id = 1 /\ frame[p].conn = p
       /\ pc[p] = "in_cb" /\ call[p].cb = "quote"
       /\ Conn = p /\ conns[p] = "open"

\* handler calls of the pumps 1..n together
RECURSIVE AttemptsUpTo(_)
AttemptsUpTo(n) == IF n = 0 THEN 0 ELSE Len(reconnLog[n]) + AttemptsUpTo(n - 1)

\* C25 (as claimed): where no Disconnect is called, every dial succeeds and
\* every send of a reconnection fails, the reconnection handler is called
\* at most MaxRetries times by all receive loops together.
C25_AttemptsBoundedAcrossLoops ==
    AttemptsUpTo(MaxConns) <= MaxRetries

\* C26 (as claimed): the receive loop never evaluates a nil client.Conn,
\* neither for its next ReadMessage nor for the Close of its teardown, so
\* it never ends in a nil-pointer dereference.
C26_LoopNeverUsesNilConn ==
    panic \notin {"nil Conn in ReadMessage", "nil Conn in Close"}

\* C27 (as claimed): the teardown of a receive loop closes and clears only
\* the transport whose read failed in this loop; a newer transport that a
\* later Connect installed stays open and installed.
C27_TeardownSparesNewerTransport ==
    [][\A p \in Pumps :
          (/\ pc[p] = "teardown" /\ pc'[p] # "teardown"
           /\ Conn # NULL /\ Conn # rd[p])
          => Conn' = Conn /\ conns'[Conn] = conns[Conn]]_vars

\* positions at which a goroutine waits in ConnMutex.Lock: in Connect, in
\* Disconnect, in the teardown, and in the two when a handler called them
LockRequests == {"c_lock", "d_lock", "teardown", "cb_c_lock", "cb_d_lock"}

\* positions inside Connect's critical section
InCriticalSection == {"c_go", "c_auth", "cb_c_go", "cb_c_auth"}

\* C28: the goroutine that holds ConnMutex is inside Connect's critical
\* section; hence no goroutine holds it in a handler, in the blocking
\* read, in the retry wait, in reconnect() when it calls Connect, or when
\* it requests the mutex itself.  Every goroutine waiting in
\* ConnMutex.Lock, a handler's Connect or Disconnect included, gets the
\* mutex, unless a panic has ended the process.
C28_GuardNeverDeadlocks ==
    /\ [](/\ ConnMutex # NULL => pc[ConnMutex] \in InCriticalSection
          /\ \A t \in Threads :
                pc[t] \in {"in_cb", "blocked", "rc_wait", "rc_top"} \cup LockRequests
                   => ConnMutex # t)
    /\ \A t \in Threads :
          (pc[t] \in LockRequests) ~> (pc[t] \notin LockRequests \/ panic # "none")

\* after a Disconnect, the Connect that MessageHandler called holds the
\* mutex and is about to send the auth frame, while the caller's Connect
\* waits for the mutex
C28_Witness ==
    \E p \in Pumps :
       /\ StopReconnect = "closed"
       /\ pc[p] = "cb_c_auth" /\ ConnMutex = p /\ call[p].cb = "quote"
       /\ \E t \in Callers : pc[t] = "c_lock"

\* the spellings of the three interval names among the intervals
DailySpellings == {"daily", "Daily"}
HourlySpellings == {"hourly", "HOURLY"}
MinuteSpellings == {"minute", "Minute"}

\* the (interval, period) combinations GetTimeSeriesData accepts
Accepted(r) ==
    \/ r.interval \in DailySpellings
    \/ /\ r.interval \in HourlySpellings
       /\ Len(r.period) >= 1 /\ r.period[1] \in {1, 2, 4, 6, 8, 24}
    \/ /\ r.interval \in MinuteSpellings
       /\ Len(r.period) >= 1 /\ r.period[1] \in {1, 5, 10, 15, 30}

\* C29: a call of GetTimeSeriesData sends a request exactly for the
\* accepted combinations: "daily" with any periods, "hourly" with a first
\* period in {1, 2, 4, 6, 8, 24}, "minute" with a first period in
\* {1, 5, 10, 15, 30}, the interval in any letter case; the request names
\* the interval in lower case and, unless daily, the first period.  For
\* every other call it returns an error and no data, and nothing is sent.
C29_TimeSeriesRequestOnlyIfAccepted ==
    (restRequest.op = "timeseries" /\ restPc \in {"sent", "returned"}) =>
       IF Accepted(restRequest)
       THEN /\ restURL.path = "/timeseries"
            /\ restURL.interval =
                  (CASE restRequest.interval \in DailySpellings -> "daily"
                     [] restRequest.interval \in HourlySpellings -> "hourly"
                     [] OTHER -> "minute")
            /\ restURL.period =
                  (IF restRequest.interval \in DailySpellings THEN 0
                   ELSE restRequest.period[1])
       ELSE /\ restPc = "returned"
            /\ restURL = NoURL /\ restResponse = NoResponse
            /\ restResult.err \notin {"nil", "none"} /\ restResult.data = <<>>

\* GetTimeSeriesData("HOURLY", 4, 3) has sent its request, for the
\* interval hourly and the period 4
C29_Witness ==
    /\ restRequest = [op |-> "timeseries", interval |-> "HOURLY", period |-> <<4, 3>>]
    /\ restPc = "sent"
    /\ restURL = [path |-> "/timeseries", interval |-> "hourly", period |-> 4]

=============================================================================
